---- MODULE Spec2Model ----
(***************************************************************************)
(* Authentication & Session Authority of the e-commerce back end:          *)
(* AuthService (constructor, login, createSession, verifySession,          *)
(* deleteSession, refreshSession, generateMagicToken, verifyMagicToken)    *)
(* over the account table, Redis and the ValidationService checks it       *)
(* calls, next to the AccountService operations that change the table.     *)
(* A call of login, createSession, verifySession, deleteSession,           *)
(* updateAccountDetails or deleteAccount is followed from one await to the *)
(* next; the clock and the other calls move in between.                    *)
(* Spec runs the session and magic-link operations; AccountSpec the        *)
(* session operations while the account table changes; MagicSpec the       *)
(* magic-link codec at millisecond resolution; FaultSpec the session       *)
(* operations when a database or Redis call rejects; ConfigSpec the        *)
(* service under each configuration of the three secrets; ExpirySpec the   *)
(* session operations around the expiry of a refresh token; ConcurrentSpec *)
(* createSession, deleteSession and refreshSession calls of three callers, *)
(* await by await; StubbedSpec refreshSession past its format check, with  *)
(* the stub the repository's test puts in the check's place; RedeemSpec    *)
(* repeated redemptions of magic links.                                    *)
(*                                                                         *)
(* Strings are modelled by what the code does with them:                   *)
(*   - an e-mail, a password or a piece of plain text is the sequence of   *)
(*     its characters;                                                     *)
(*   - a token string is the sequence of its dot-separated parts           *)
(*     (String.prototype.split(".")); a part is a record naming its        *)
(*     encoding and content.  The empty string is the empty sequence.      *)
(* Time is the clock in whole seconds (Math.floor(Date.now() / 1000), the  *)
(* resolution of the iat/exp claims jsonwebtoken writes) and, for the      *)
(* magic-link tokens, in milliseconds (Date.now()), counted from the start *)
(* of the model's epoch.                                                   *)
(***************************************************************************)
EXTENDS Integers, Sequences, FiniteSets, TLC

VARIABLES
    env,            \* process.env: the three secrets, fixed at process start
    service,        \* the module's AuthService instance: "unloaded" before
                    \* new AuthService() ran, then "ready", or "failed" when
                    \* the constructor threw
    now,            \* the clock, in seconds
    nowMs,          \* the clock, in milliseconds (Date.now())
    accounts,       \* table Account: its rows, in ID order
    redis,          \* the Redis keyspace: a set of entries [key, val, ex]
    sessions,       \* number of successful createSession calls (bounds issuance)
    issued,         \* history: access (session) token strings returned so far
    issuedRefresh,  \* history: refresh token strings returned so far
    revoked,        \* history: token strings for which deleteSession returned true
    last,           \* the last call: operation, arguments and what it returned
    calls,          \* per caller, its async call in flight: the await it is
                    \* suspended at and the locals it holds
    accepted        \* history: the magic-link token a redemption accepted
                    \* last, and the e-mail it returned

vars == <<env, service, now, nowMs, accounts, redis, sessions, issued,
          issuedRefresh, revoked, last, calls, accepted>>

-----------------------------------------------------------------------------
(* Bounds of the model *)

MaxSessions == 2

(* Program constants *)

AccessLifetime == 900           \* expiresIn: "15m"
RefreshLifetime == 604800       \* expiresIn: "7d", EX: 7 * 24 * 60 * 60
BcryptMaxBytes == 72            \* bcrypt hashes only the first 72 bytes
MinPasswordLen == 8             \* {8,} of the password pattern
ApiKeyLen == 36                 \* apiKey.length !== 36
MagicLifetimeMs == 900000       \* expiresAt = issuedAt + 900000

-----------------------------------------------------------------------------
(* Characters *)

Lower == {"a","b","c","d","e","f","g","h","i","j","k","l","m",
          "n","o","p","q","r","s","t","u","v","w","x","y","z"}
Upper == {"A","B","C","D","E","F","G","H","I","J","K","L","M",
          "N","O","P","Q","R","S","T","U","V","W","X","Y","Z"}
Digit == {"0","1","2","3","4","5","6","7","8","9"}
HexDigit == Digit \cup {"a","b","c","d","e","f","A","B","C","D","E","F"}
\* The characters of the class \s of a regular expression, which are also the
\* StrWhiteSpaceChar that parseInt skips. A character outside printable
\* ASCII other than tab, line feed, form feed and carriage return is written
\* by its code point, "U+000B" for the vertical tab.
Whitespace ==
    {" ", "\t", "\n", "U+000B", "\f", "\r", "U+00A0", "U+1680",
     "U+2000", "U+2001", "U+2002", "U+2003", "U+2004", "U+2005", "U+2006",
     "U+2007", "U+2008", "U+2009", "U+200A", "U+2028", "U+2029", "U+202F",
     "U+205F", "U+3000", "U+FEFF"}
PasswordSpecial == {"!","@","#","$","%","^","&","*"," "}
WordChar == Lower \cup Upper \cup Digit \cup {"_"}

Chars(s) == {s[i] : i \in 1..Len(s)}

-----------------------------------------------------------------------------
(* ValidationService: format checks *)

\* /^[^\s@]+@[^\s@]+\.[^\s@]+$/ : one "@", no whitespace, and a "." after the
\* "@" with at least one character on each side of it.
checkEmailFormat(email) ==
    /\ email # <<>>
    /\ \E a \in 1..Len(email) :
          /\ email[a] = "@"
          /\ a > 1
          /\ \A i \in 1..Len(email) :
                i # a => (email[i] # "@" /\ email[i] \notin Whitespace)
          /\ \E d \in (a + 2)..(Len(email) - 1) : email[d] = "."

\* /^(?=.*[a-z])(?=.*[A-Z])(?=.*\d)(?=.*[!@#$%^&* ])[\w!@#$%^& *]{8,}$/
checkPasswordFormat(password) ==
    /\ password # <<>>
    /\ Chars(password) \cap Lower # {}
    /\ Chars(password) \cap Upper # {}
    /\ Chars(password) \cap Digit # {}
    /\ Chars(password) \cap PasswordSpecial # {}
    /\ Chars(password) \subseteq (WordChar \cup PasswordSpecial)
    /\ Len(password) >= MinPasswordLen

-----------------------------------------------------------------------------
(* Token strings *)

\* One dot-separated part of a token string is a record; enc names its
\* encoding.  A plain-text part holds its characters, a JWT payload part its
\* claims, an HMAC digest its key and the parts it was computed over.
Text(chars) == [enc |-> "text", txt |-> chars]

\* base64url of {"alg":"HS256","typ":"JWT"}
JwtHeader == [enc |-> "base64url-header"]

\* base64url of {"userId":uid,"iat":iat,"exp":exp}
JwtClaims(uid, iat, exp) ==
    [enc |-> "base64url-claims", uid |-> uid, iat |-> iat, exp |-> exp]

\* createHmac("sha256", key).update(data).digest(encoding), data the
\* dot-joined parts.  Two digests are equal exactly when key, data and
\* encoding are: a hex digest (64 characters of [0-9a-f]) never equals a
\* base64url part or a text part that is not that digest.
HmacSha256(key, data, encoding) == [enc |-> encoding, key |-> key, of |-> data]

\* jwt.sign(payload, key, {expiresIn}) at clock t: HS256 over
\* header.payload, deterministic in (payload, key, t).
jwtSign(uid, key, lifetime, t) ==
    LET claims == JwtClaims(uid, t, t + lifetime)
    IN  <<JwtHeader, claims,
          HmacSha256(key, <<JwtHeader, claims>>, "base64url-hs256")>>

\* jwt.verify(token, key) at clock t: TRUE when it returns the payload,
\* FALSE when it throws (malformed, bad signature, or t >= exp).
jwtVerify(token, key, t) ==
    /\ key # ""
    /\ Len(token) = 3
    /\ token[1] = JwtHeader
    /\ token[2].enc = "base64url-claims"
    /\ token[3] = HmacSha256(key, <<token[1], token[2]>>, "base64url-hs256")
    /\ t < token[2].exp

\* /^[0-9a-f]{8}-[0-9a-f]{4}-[0-9a-f]{4}-[0-9a-f]{4}-[0-9a-f]{12}$/i
UuidPattern(chars) ==
    /\ Len(chars) = ApiKeyLen
    /\ \A i \in 1..Len(chars) :
          IF i \in {9, 14, 19, 24} THEN chars[i] = "-"
                                   ELSE chars[i] \in HexDigit

\* The characters of a token when it is a single plain-text part; the
\* encoded parts (base64url, hex) hold no "-" and cannot match the pattern.
checkAPIKeyFormat(apiKey) ==
    /\ apiKey # <<>>
    /\ Len(apiKey) = 1
    /\ apiKey[1].enc = "text"
    /\ Len(apiKey[1].txt) = ApiKeyLen
    /\ UuidPattern(apiKey[1].txt)

\* Variant: the check verifies the HS256 signature of a JWT under the access
\* secret (third part over the first two) and does not look at the expiry.
checkTokenSignature_JwtSignature(e, token) ==
    /\ token # <<>>
    /\ e.SECRET_KEY # ""
    /\ Len(token) = 3
    /\ token[3] = HmacSha256(e.SECRET_KEY, <<token[1], token[2]>>,
                             "base64url-hs256")

\* const [tokenPayload, tokenSignature] = token.split(".");
\* tokenSignature === hex(HMAC(SECRET_KEY, tokenPayload))
checkTokenSignature(e, token) ==
    /\ token # <<>>
    /\ e.SECRET_KEY # ""
    /\ LET tokenPayload == token[1]
           expectedSignature == HmacSha256(e.SECRET_KEY, <<tokenPayload>>, "hex")
       IN  /\ Len(token) >= 2     \* else tokenSignature is undefined
           /\ token[2] = expectedSignature

checkRefreshTokenFormat(e, refreshToken) ==
    /\ refreshToken # <<>>
    /\ checkAPIKeyFormat(refreshToken)
    /\ checkTokenSignature(e, refreshToken)

-----------------------------------------------------------------------------
(* The account table, AccountService and bcrypt *)

Email1 == <<"j","o","h","n","@","e","x",".","c","o","m">>
Email2 == <<"j","a","n","e","@","e","x",".","c","o","m">>
UnknownEmail == <<"n","o","@","e","x",".","c","o","m">>
BadEmail == <<"i","n","v","a","l","i","d","-","e","m","a","i","l">>
EmailInputs == {Email1, Email2, UnknownEmail, BadEmail}

\* A well-formed secret longer than bcrypt's 72 bytes, and one that differs
\* from it only in byte 73.
Pad72 == [i \in 1..BcryptMaxBytes |->
             CASE i = 1 -> "A" [] i = 2 -> "1" [] i = 3 -> "!" [] OTHER -> "a"]
Secret1 == Pad72 \o <<"x">>
Secret1Alt == Pad72 \o <<"y">>
\* "correctpw": no upper-case letter, digit or special character.
Secret2 == <<"c","o","r","r","e","c","t","p","w">>
WrongPw == <<"W","r","o","n","g","p","w","1","!">>
\* "Newpass1!"
NewSecret == <<"N","e","w","p","a","s","s","1","!">>
\* The credentials presented to login: the stored secret of each account,
\* other secrets, an unknown identifier and a malformed one.
LoginInputs ==
    {<<Email1, Secret1>>, <<Email1, Secret1Alt>>, <<Email1, WrongPw>>,
     <<Email2, Secret2>>, <<UnknownEmail, WrongPw>>, <<BadEmail, WrongPw>>}

\* bcrypt.hash(password): salted, one-way; only the first 72 bytes of the
\* password enter the hash.
bcryptHash(password) ==
    [alg |-> "bcrypt",
     input |-> SubSeq(password, 1,
                      IF Len(password) < BcryptMaxBytes THEN Len(password)
                                                        ELSE BcryptMaxBytes)]

\* A string held in column Password that is the text it was given as and
\* not a bcrypt hash.
PlainText(chars) == [alg |-> "none", input |-> chars]

\* bcrypt.compare(password, hash): false for a string that is no hash.
bcryptCompare(password, hash) == hash = bcryptHash(password)

\* The secret each account was provisioned with (not stored; only its hash
\* is).
StoredSecret(id) == IF id = 1 THEN Secret1 ELSE Secret2

\* Rows of table Account as provisioned, in ID order: the columns the
\* authority reads, Password holding the bcrypt hash of the account's secret.
AccountTable ==
    << [ID |-> 1, Email |-> Email1, Password |-> bcryptHash(StoredSecret(1))],
       [ID |-> 2, Email |-> Email2, Password |-> bcryptHash(StoredSecret(2))] >>

\* Variant: the statement has no WHERE clause.
query_NoWhere(accts, email) == accts

\* query("SELECT ... FROM Account WHERE Email = ?", [email]): the rows, in ID
\* order.
query(accts, email) == SelectSeq(accts, LAMBDA r : r.Email = email)

\* query("SELECT * FROM Account WHERE ID = ?", [id])
queryById(accts, id) == SelectSeq(accts, LAMBDA r : r.ID = id)

\* { ...current, ...data }
Spread(current, data) ==
    [f \in DOMAIN current \cup DOMAIN data |->
        IF f \in DOMAIN data THEN data[f] ELSE current[f]]

\* query("UPDATE Account SET Email = ?, ..., Password = ?, ... WHERE ID = ?")
updateById(accts, updatedData) ==
    [i \in DOMAIN accts |->
        IF accts[i].ID = updatedData.ID
        THEN [ID |-> accts[i].ID, Email |-> updatedData.Email,
              Password |-> updatedData.Password]
        ELSE accts[i]]

\* query("DELETE FROM Account WHERE ID = ?", [id])
deleteById(accts, id) == SelectSeq(accts, LAMBDA r : r.ID # id)

\* createAccount(data): "false" without an e-mail; with one,
\* emailService.isValidEmailFormat is not a function and the call raises
\* before any statement is sent.
createAccount(data) ==
    IF "Email" \notin DOMAIN data \/ data.Email = <<>> THEN "false"
                                                       ELSE "raised"

-----------------------------------------------------------------------------
(* Redis *)

NoExpiry == -1

\* Variant: the session entry is written under the refresh prefix.
SessionKey_RefreshPrefix(token) == [ns |-> "user_refresh", tok |-> token]

SessionKey(token) == [ns |-> "user_session", tok |-> token]
RefreshKey(token) == [ns |-> "user_refresh", tok |-> token]

JSONstringify(obj) == [json |-> TRUE, userId |-> obj.userId]
JSONparse(str) == [userId |-> str.userId]

\* Entries whose TTL has not run out at clock t.
redisLive(rds, t) == {x \in rds : x.ex = NoExpiry \/ t < x.ex}

\* redis.get(key): <<value>>, or << >> for null.
redisGet(rds, key, t) ==
    IF \E x \in redisLive(rds, t) : x.key = key
    THEN <<(CHOOSE x \in redisLive(rds, t) : x.key = key).val>>
    ELSE <<>>

\* redis.set(key, value, {EX}): overwrites the key and its TTL.
redisSet(rds, key, val, ex) ==
    {x \in rds : x.key # key} \cup {[key |-> key, val |-> val, ex |-> ex]}

\* redis.del(key): the keyspace afterwards; redisDelCount is the reply.
redisDel(rds, key) == {x \in rds : x.key # key}
redisDelCount(rds, key, t) ==
    IF \E x \in redisLive(rds, t) : x.key = key THEN 1 ELSE 0

-----------------------------------------------------------------------------
(* AuthService *)

\* Variant: the magic-link key is not among the secrets checked.
Constructed_TwoSecrets(e) ==
    /\ e.SECRET_KEY # ""
    /\ e.REFRESH_SECRET_KEY # ""

\* constructor: throws unless all three secrets are set.
Constructed(e) ==
    /\ e.SECRET_KEY # ""
    /\ e.REFRESH_SECRET_KEY # ""
    /\ e.MAGIC_SIGNIN_KEY # ""

NoToken == <<>>

\* "return false" of an operation that leaves Redis as it found it.
Failure(rds) ==
    [ok |-> FALSE, sessionToken |-> NoToken, refreshToken |-> NoToken,
     redis |-> rds]

\* The awaited calls, named by operation and call; NoFault: none rejects.
NoFault == "none"
Faults ==
    {"login:query", "login:compare", "createSession:query",
     "createSession:set session", "createSession:set refresh",
     "verifySession:get", "deleteSession:del", "refreshSession:get",
     "refreshSession:set", "refreshSession:del"}

\* The callers whose calls may be in flight at the same time.
Callers == {1, 2, 3}

\* No call in flight.  A call in flight records its operation and
\* arguments, the awaited call whose reply it waits for (pc) and its locals.
\* Kept with it, for the properties: missed, a query of the call found no
\* row; written, the cache entries the call has set; fault, the awaited
\* call that rejected; overlapped, the callers whose call of the same
\* operation with the same token was pending when it began, or began while
\* it was pending; live, the entry of its token was in the cache when it
\* began; added, its redis.set created a key.
NoCall ==
    [op |-> "none", pc |-> "idle", email |-> <<>>, password |-> <<>>,
     tok |-> NoToken, data |-> <<>>, user |-> <<>>, account |-> <<>>,
     sessionToken |-> NoToken, refreshToken |-> NoToken,
     sessionData |-> <<>>, newSessionToken |-> NoToken, ok |-> FALSE,
     missed |-> FALSE, written |-> {}, fault |-> NoFault,
     faulted |-> FALSE, raised |-> FALSE, overlapped |-> {}, live |-> FALSE, added |-> FALSE]

\* The promise of a call settles: with false, or with a truthy result.
Settled(call, ok) == [call EXCEPT !.pc = "done", !.ok = ok]

\* Variant: the catch block rethrows.
Caught_Rethrows(call) ==
    [call EXCEPT !.pc = "done", !.ok = FALSE, !.fault = call.pc,
                 !.faulted = TRUE, !.raised = TRUE]

\* The awaited call rejects: the rejection lands in the operation's catch
\* block, which logs and returns false.
Caught(call) ==
    [call EXCEPT !.pc = "done", !.ok = FALSE, !.fault = call.pc,
                 !.faulted = TRUE]

\* createSession(email) up to its first await: the format check, then the
\* query is sent.  Called from login, it goes on in login's call.
createSessionBegin(call) ==
    IF ~checkEmailFormat(call.email) THEN Settled(call, FALSE)
    ELSE [call EXCEPT !.pc = "createSession:query"]

\* login(email, password) up to its first await.
loginBegin(email, password) ==
    LET call == [NoCall EXCEPT !.op = "login", !.email = email,
                               !.password = password]
    IN  IF ~checkEmailFormat(email) \/ ~checkPasswordFormat(password)
        THEN Settled(call, FALSE)
        ELSE [call EXCEPT !.pc = "login:query"]

\* login from the rows of its query to bcrypt.compare.
loginQueried(call, rows) ==
    IF Len(rows) = 0 THEN Settled([call EXCEPT !.missed = TRUE], FALSE)
    ELSE [call EXCEPT !.pc = "login:compare", !.user = <<rows[1]>>]

\* Variant: the result of bcrypt.compare is not looked at.
login_NoCompare(call) == createSessionBegin(call)

\* login from the result of bcrypt.compare on: return this.createSession.
loginCompared(call) ==
    LET account == call.user[1]
        passwordMatch == bcryptCompare(call.password, account.Password)
    IN  IF ~passwordMatch THEN Settled(call, FALSE)
        ELSE createSessionBegin(call)

\* Variant: a missing row does not throw; the tokens are signed for an
\* undefined user id, written 0.
createSession_MissingRowSigned(e, call, rows, t) ==
    LET account == IF Len(rows) = 0
                   THEN [ID |-> 0, Email |-> call.email,
                         Password |-> PlainText(<<>>)]
                   ELSE rows[1]
    IN  [call EXCEPT
            !.pc = "createSession:set session",
            !.account = <<account>>,
            !.sessionToken =
                jwtSign(account.ID, e.SECRET_KEY, AccessLifetime, t),
            !.refreshToken =
                jwtSign(account.ID, e.REFRESH_SECRET_KEY, RefreshLifetime, t)]

\* createSession from the rows of its query to the first redis.set, at
\* clock t.  A missing row makes account undefined and account.ID throw;
\* jwt.sign throws on an empty key; every throw is caught and turned into
\* false.
createSessionQueried(e, call, rows, t) ==
    IF Len(rows) = 0 THEN Settled([call EXCEPT !.missed = TRUE], FALSE)
    ELSE IF e.SECRET_KEY = "" \/ e.REFRESH_SECRET_KEY = ""
    THEN Settled(call, FALSE)
    ELSE LET account == rows[1]
         IN  [call EXCEPT
                 !.pc = "createSession:set session",
                 !.account = <<account>>,
                 !.sessionToken =
                     jwtSign(account.ID, e.SECRET_KEY, AccessLifetime, t),
                 !.refreshToken =
                     jwtSign(account.ID, e.REFRESH_SECRET_KEY,
                             RefreshLifetime, t)]

\* JSON.stringify({ userId: account.ID })
createSessionData(call) == JSONstringify([userId |-> call.account[1].ID])

\* Variant: the access entry is written with the lifetime of its token.
createSession_SessionExpires(call, t) ==
    [key |-> SessionKey(call.sessionToken), val |-> createSessionData(call),
     ex |-> t + AccessLifetime]

\* redis.set(`user_session:${sessionToken}`, sessionData), applied at clock
\* t: the entry it writes.
createSessionSetSession(call, t) ==
    [key |-> SessionKey(call.sessionToken), val |-> createSessionData(call),
     ex |-> NoExpiry]

\* Variant: the refresh token's entry is written under the session prefix.
createSession_RefreshUnderSessionKey(call, t) ==
    [key |-> SessionKey(call.refreshToken), val |-> createSessionData(call),
     ex |-> t + RefreshLifetime]

\* redis.set(`user_refresh:${refreshToken}`, sessionData, {EX: 7 days}),
\* applied at clock t: the entry it writes; Redis counts EX from t.
createSessionSetRefresh(call, t) ==
    [key |-> RefreshKey(call.refreshToken), val |-> createSessionData(call),
     ex |-> t + RefreshLifetime]

\* Variant: the session is created before the secret is compared.
login_SessionBeforeCompare(e, accts, rds, call, t) ==
    CASE call.pc = "login:query" ->
             LET queried == loginQueried(call, query(accts, call.email))
             IN  [call |-> IF queried.pc = "done" THEN queried
                           ELSE createSessionBegin(queried),
                  redis |-> rds]
      [] call.pc = "createSession:query" ->
             [call |-> createSessionQueried(e, call, query(accts, call.email),
                                            t),
              redis |-> rds]
      [] call.pc = "createSession:set session" ->
             LET x == createSessionSetSession(call, t)
             IN  [call |-> [call EXCEPT !.pc = "createSession:set refresh",
                                        !.written = @ \cup {x}],
                  redis |-> redisSet(rds, x.key, x.val, x.ex)]
      [] call.pc = "createSession:set refresh" ->
             LET x == createSessionSetRefresh(call, t)
                 set == [call EXCEPT !.written = @ \cup {x}]
             IN  [call |-> IF call.op = "login" THEN [set EXCEPT
                                                         !.pc = "login:compare"]
                           ELSE Settled(set, TRUE),
                  redis |-> redisSet(rds, x.key, x.val, x.ex)]
      [] call.pc = "login:compare" ->
             [call |-> Settled(call, bcryptCompare(call.password,
                                                   call.user[1].Password)),
              redis |-> rds]

\* A call of login or createSession from the reply it awaits to its next
\* await or to its return, at clock t: the awaited query or Redis command
\* runs at this step.
sessionResume(e, accts, rds, call, t) ==
    CASE call.pc = "login:query" ->
             [call |-> loginQueried(call, query(accts, call.email)),
              redis |-> rds]
      [] call.pc = "login:compare" ->
             [call |-> loginCompared(call), redis |-> rds]
      [] call.pc = "createSession:query" ->
             [call |-> createSessionQueried(e, call, query(accts, call.email),
                                            t),
              redis |-> rds]
      [] call.pc = "createSession:set session" ->
             LET x == createSessionSetSession(call, t)
             IN  [call |-> [call EXCEPT !.pc = "createSession:set refresh",
                                        !.written = @ \cup {x}],
                  redis |-> redisSet(rds, x.key, x.val, x.ex)]
      [] call.pc = "createSession:set refresh" ->
             LET x == createSessionSetRefresh(call, t)
             IN  [call |-> Settled([call EXCEPT !.written = @ \cup {x}], TRUE),
                  redis |-> redisSet(rds, x.key, x.val, x.ex)]

\* What a settled call of login or createSession returns, with Redis as the
\* call left it.
Returns(call, rds) ==
    [ok |-> call.ok,
     sessionToken |-> IF call.ok THEN call.sessionToken ELSE NoToken,
     refreshToken |-> IF call.ok THEN call.refreshToken ELSE NoToken,
     redis |-> rds]

\* A call run from one await to the next until it returns, all at clock t
\* and with no other call in between.
RECURSIVE Completed(_, _, _, _, _)
Completed(e, accts, rds, call, t) ==
    IF call.pc = "done" THEN Returns(call, rds)
    ELSE LET r == sessionResume(e, accts, rds, call, t)
         IN  Completed(e, accts, r.redis, r.call, t)

\* createSession(email) at clock t when nothing runs between its awaits.
createSession(e, accts, rds, email, t) ==
    Completed(e, accts, rds,
              createSessionBegin([NoCall EXCEPT !.op = "createSession",
                                                !.email = email]), t)

\* login(email, password) at clock t when nothing runs between its awaits.
login(e, accts, rds, email, password, t) ==
    Completed(e, accts, rds, loginBegin(email, password), t)

\* Variant: the Redis lookup is left out.
verifySession_NoCacheLookup(e, rds, sessionToken, t) ==
    checkTokenSignature(e, sessionToken)

\* Variant: the catch block returns true.
verifySession_CatchReturnsTrue(e, rds, sessionToken, t) ==
    IF ~checkTokenSignature(e, sessionToken) THEN TRUE
    ELSE IF redisGet(rds, SessionKey(sessionToken), t) = <<>> THEN TRUE
    ELSE TRUE

\* verifySession(sessionToken) at clock t: the boolean it returns.
verifySession(e, rds, sessionToken, t) ==
    /\ checkTokenSignature(e, sessionToken)
    /\ redisGet(rds, SessionKey(sessionToken), t) # <<>>

\* Variant: the reply of redis.del is not looked at.
deleteSession_IgnoresReply(rds, sessionToken, t) ==
    [ok |-> TRUE, sessionToken |-> NoToken, refreshToken |-> NoToken,
     redis |-> redisDel(rds, SessionKey(sessionToken))]

\* Variant: the token's entry is deleted under both prefixes.
deleteSession_BothPrefixes(rds, sessionToken, t) ==
    LET deleted == redisDelCount(rds, SessionKey(sessionToken), t)
                   + redisDelCount(rds, RefreshKey(sessionToken), t)
    IN  [ok |-> deleted # 0, sessionToken |-> NoToken, refreshToken |-> NoToken,
         redis |-> redisDel(redisDel(rds, SessionKey(sessionToken)),
                            RefreshKey(sessionToken))]

\* deleteSession(sessionToken) at clock t.
deleteSession(rds, sessionToken, t) ==
    LET deleted == redisDelCount(rds, SessionKey(sessionToken), t)
    IN  [ok |-> deleted # 0, sessionToken |-> NoToken, refreshToken |-> NoToken,
         redis |-> redisDel(rds, SessionKey(sessionToken))]

\* Variant: the structural check logs and does not return.
refreshSession_NoFormatCheck(e, rds, refreshToken, t) ==
    LET sessionData == redisGet(rds, RefreshKey(refreshToken), t)
    IN  IF sessionData = <<>> THEN Failure(rds)
        ELSE IF ~jwtVerify(refreshToken, e.REFRESH_SECRET_KEY, t)
             THEN Failure(rds)
             ELSE LET newSessionToken ==
                          jwtSign(JSONparse(sessionData[1]).userId,
                                  e.SECRET_KEY, AccessLifetime, t)
                  IN  [ok |-> TRUE, sessionToken |-> newSessionToken,
                       refreshToken |-> NoToken,
                       redis |-> redisDel(redisSet(rds,
                                              SessionKey(newSessionToken),
                                              sessionData[1], NoExpiry),
                                          RefreshKey(refreshToken))]

\* refreshSession(refreshToken) at clock t.
refreshSession(e, rds, refreshToken, t) ==
    IF ~checkRefreshTokenFormat(e, refreshToken) THEN Failure(rds)
    ELSE LET sessionData == redisGet(rds, RefreshKey(refreshToken), t)
         IN  IF sessionData = <<>> THEN Failure(rds)
             ELSE IF ~jwtVerify(refreshToken, e.REFRESH_SECRET_KEY, t)
                  THEN Failure(rds)
                  ELSE LET sessionObj == JSONparse(sessionData[1])
                           newSessionToken ==
                               jwtSign(sessionObj.userId, e.SECRET_KEY,
                                       AccessLifetime, t)
                           afterSet ==
                               redisSet(rds, SessionKey(newSessionToken),
                                        sessionData[1], NoExpiry)
                       IN  [ok |-> TRUE, sessionToken |-> newSessionToken,
                            refreshToken |-> NoToken,
                            redis |-> redisDel(afterSet, RefreshKey(refreshToken))]

-----------------------------------------------------------------------------
(* refreshSession when Redis rejects *)

\* An operation that ran without the chosen call rejecting (the call was
\* not reached, or another one was chosen): r is what it returned.
Returned(r) ==
    [ok |-> r.ok, sessionToken |-> r.sessionToken,
     refreshToken |-> r.refreshToken, redis |-> r.redis,
     faulted |-> FALSE, raised |-> FALSE]

\* The chosen call rejected; rds is Redis as the calls before it left it.
Rejected(rds) ==
    LET caught == Caught([NoCall EXCEPT !.pc = "rejected"])
    IN  [ok |-> caught.ok, sessionToken |-> NoToken, refreshToken |-> NoToken,
         redis |-> rds, faulted |-> caught.faulted, raised |-> caught.raised]

refreshSessionFaulty(f, e, rds, refreshToken, t) ==
    IF ~checkRefreshTokenFormat(e, refreshToken) THEN Returned(Failure(rds))
    ELSE IF f = "refreshSession:get" THEN Rejected(rds)
    ELSE LET sessionData == redisGet(rds, RefreshKey(refreshToken), t)
         IN  IF sessionData = <<>> THEN Returned(Failure(rds))
             ELSE IF ~jwtVerify(refreshToken, e.REFRESH_SECRET_KEY, t)
             THEN Returned(Failure(rds))
             ELSE IF f = "refreshSession:set" THEN Rejected(rds)
             ELSE IF f = "refreshSession:del"
             THEN Rejected(redisSet(rds,
                     SessionKey(jwtSign(JSONparse(sessionData[1]).userId,
                                        e.SECRET_KEY, AccessLifetime, t)),
                     sessionData[1], NoExpiry))
             ELSE Returned(refreshSession(e, rds, refreshToken, t))

-----------------------------------------------------------------------------
(* The operations await by await *)

\* verifySession up to its await: a token that fails the signature check
\* throws into the catch block, which returns false; for any other
\* redis.get is sent.
verifySessionBegin(e, sessionToken) ==
    LET call == [NoCall EXCEPT !.op = "verifySession", !.tok = sessionToken]
    IN  IF ~checkTokenSignature(e, sessionToken) THEN Settled(call, FALSE)
        ELSE [call EXCEPT !.pc = "verifySession:get"]

\* verifySession from the reply of redis.get on.
verifySessionResume(e, rds, call, t) ==
    [call |-> Settled(call, verifySession(e, rds, call.tok, t)),
     redis |-> rds]

\* deleteSession up to its await: redis.del is sent.
deleteSessionBegin(sessionToken) ==
    [NoCall EXCEPT !.op = "deleteSession", !.tok = sessionToken,
                   !.pc = "deleteSession:del"]

\* deleteSession from the reply of redis.del on.
deleteSessionResume(rds, call, t) ==
    LET r == deleteSession(rds, call.tok, t)
    IN  [call |-> Settled(call, r.ok), redis |-> r.redis]

\* refreshSession up to its first await: the format check, then redis.get
\* is sent.
refreshSessionBegin(e, refreshToken) ==
    LET call == [NoCall EXCEPT !.op = "refreshSession", !.tok = refreshToken]
    IN  IF ~checkRefreshTokenFormat(e, refreshToken)
        THEN Settled(call, FALSE)
        ELSE [call EXCEPT !.pc = "get"]

\* refreshSession up to its first await when the repository's test has put
\* a stub that returns true in the place of
\* validationService.checkRefreshTokenFormat: redis.get is sent.
refreshSessionBeginStubbed(refreshToken) ==
    [NoCall EXCEPT !.op = "refreshSession", !.tok = refreshToken, !.pc = "get"]

\* refreshSession from one Redis reply to the next await or to its return;
\* Redis runs the awaited command at this step.
refreshSessionResume(e, rds, call, t) ==
    CASE call.pc = "get" ->
             LET sessionData == redisGet(rds, RefreshKey(call.tok), t)
             IN  IF sessionData = <<>>
                    \/ ~jwtVerify(call.tok, e.REFRESH_SECRET_KEY, t)
                 THEN [call |-> Settled(call, FALSE), redis |-> rds]
                 ELSE [call |->
                           [call EXCEPT
                               !.pc = "set",
                               !.sessionData = sessionData,
                               !.newSessionToken =
                                   jwtSign(JSONparse(sessionData[1]).userId,
                                           e.SECRET_KEY, AccessLifetime, t)],
                       redis |-> rds]
      [] call.pc = "set" ->
             [call |->
                  [call EXCEPT
                      !.pc = "del",
                      !.added =
                          redisGet(rds, SessionKey(call.newSessionToken), t)
                              = <<>>],
              redis |-> redisSet(rds, SessionKey(call.newSessionToken),
                                 call.sessionData[1], NoExpiry)]
      [] call.pc = "del" ->
             [call |-> Settled(call, TRUE),
              redis |-> redisDel(rds, RefreshKey(call.tok))]

\* updateAccountDetails(data) up to its first await: the SELECT is sent.
updateAccountDetailsBegin(data) ==
    LET call == [NoCall EXCEPT !.op = "updateAccountDetails", !.data = data]
    IN  IF "ID" \notin DOMAIN data \/ data.ID = 0 THEN Settled(call, FALSE)
        ELSE [call EXCEPT !.pc = "updateAccountDetails:select"]

\* The columns whose values the UPDATE binds, next to ID.
UpdateColumns ==
    {"Email", "Verified", "Password", "FirstName", "LastName", "Sex", "Role"}

\* updateAccountDetails from one reply of the database to the next await
\* or to its return.  The row read is spread under data.  A row read by
\* SELECT * has every column, so every parameter of the UPDATE is bound.
\* With no row, current is undefined and updatedData is data alone: when
\* data names every column the UPDATE is sent (it matches no row) and the
\* call returns true; when it leaves one out, that parameter is undefined,
\* execute throws and the catch block returns false.
updateAccountDetailsResume(accts, call) ==
    CASE call.pc = "updateAccountDetails:select" ->
             LET rows == queryById(accts, call.data.ID)
                 updatedData == IF Len(rows) = 0 THEN call.data
                                ELSE Spread(rows[1], call.data)
             IN  IF Len(rows) = 0 /\ ~(UpdateColumns \subseteq DOMAIN call.data)
                 THEN [call |-> Settled([call EXCEPT !.missed = TRUE], FALSE),
                       accounts |-> accts]
                 ELSE [call |-> [call EXCEPT
                                    !.pc = "updateAccountDetails:update",
                                    !.missed = Len(rows) = 0,
                                    !.data = updatedData],
                       accounts |-> accts]
      [] call.pc = "updateAccountDetails:update" ->
             [call |-> Settled(call, TRUE),
              accounts |-> updateById(accts, call.data)]

\* deleteAccount(id) up to its await: the DELETE is sent.
deleteAccountBegin(id) ==
    [NoCall EXCEPT !.op = "deleteAccount", !.data = [ID |-> id],
                   !.pc = "deleteAccount:delete"]

\* deleteAccount from the reply of the database on: the DELETE has run,
\* whether or not it matched a row, and the call returns true.
deleteAccountResume(accts, call) ==
    [call |-> Settled(call, TRUE),
     accounts |-> deleteById(accts, call.data.ID)]

-----------------------------------------------------------------------------
(* Magic-link tokens: base64, decimal numbers, the codec *)

\* The printable ASCII characters in code order, " " (32) to "~" (126);
\* the backslash (92) and the backquote (96) are written by their names.
AsciiPrintable ==
    <<" ","!","\"","#","$","%","&","'","(",")","*","+",",","-",".","/",
      "0","1","2","3","4","5","6","7","8","9",":",";","<","=",">","?",
      "@","A","B","C","D","E","F","G","H","I","J","K","L","M","N","O",
      "P","Q","R","S","T","U","V","W","X","Y","Z","[","backslash","]","^","_",
      "backquote","a","b","c","d","e","f","g","h","i","j","k","l","m","n","o",
      "p","q","r","s","t","u","v","w","x","y","z","{","|","}","~">>

HexDigits == <<"0","1","2","3","4","5","6","7","8","9","A","B","C","D","E","F">>

\* The hexadecimal digits of n, at least width of them.
RECURSIVE HexString(_, _)
HexString(n, width) ==
    IF n = 0 /\ width <= 0 THEN ""
    ELSE HexString(n \div 16, width - 1) \o HexDigits[(n % 16) + 1]

\* The character of a code point, String.fromCodePoint(n).
CodePointChar(n) ==
    IF n \in 32..126 THEN AsciiPrintable[n - 31]
    ELSE IF n = 9 THEN "\t"
    ELSE IF n = 10 THEN "\n"
    ELSE IF n = 12 THEN "\f"
    ELSE IF n = 13 THEN "\r"
    ELSE "U+" \o HexString(n, 4)

\* The code point of each character of one byte or of the class \s, and of
\* U+FFFD.
CharCode ==
    LET named == (0..255) \cup {5760, 8232, 8233, 8239, 8287, 12288, 65279,
                                65533} \cup (8192..8202)
    IN  [c \in {CodePointChar(n) : n \in named} |->
            CHOOSE n \in named : CodePointChar(n) = c]

\* str.codePointAt of a character.
CodePoint(c) ==
    IF c \in DOMAIN CharCode THEN CharCode[c]
    ELSE CHOOSE n \in 256..1114111 : CodePointChar(n) = c

\* The UTF-8 bytes of a code point; a lone surrogate is written as U+FFFD.
Utf8Bytes(n) ==
    IF n < 128 THEN <<n>>
    ELSE IF n < 2048 THEN <<192 + (n \div 64), 128 + (n % 64)>>
    ELSE IF n \in 55296..57343 THEN <<239, 191, 189>>
    ELSE IF n < 65536
    THEN <<224 + (n \div 4096), 128 + ((n \div 64) % 64), 128 + (n % 64)>>
    ELSE <<240 + (n \div 262144), 128 + ((n \div 4096) % 64),
           128 + ((n \div 64) % 64), 128 + (n % 64)>>

\* Buffer.from(str): the UTF-8 bytes of a string.
RECURSIVE Utf8Encode(_)
Utf8Encode(str) ==
    IF Len(str) = 0 THEN <<>>
    ELSE Utf8Bytes(CodePoint(str[1])) \o Utf8Encode(Tail(str))

\* buf.toString("utf-8"): a byte below 128 is its character, a well-formed
\* sequence of two to four bytes is one character, and every maximal part of
\* an ill-formed sequence decodes to one U+FFFD.
RECURSIVE Utf8Decode(_)
Utf8Decode(bytes) ==
    IF Len(bytes) = 0 THEN <<>>
    ELSE LET b == bytes[1]
             need == IF b < 128 THEN 0
                     ELSE IF b \in 194..223 THEN 1
                     ELSE IF b \in 224..239 THEN 2
                     ELSE IF b \in 240..244 THEN 3
                     ELSE 0 - 1
             low(i) == IF i = 1 /\ b = 224 THEN 160
                       ELSE IF i = 1 /\ b = 240 THEN 144
                       ELSE 128
             high(i) == IF i = 1 /\ b = 237 THEN 159
                        ELSE IF i = 1 /\ b = 244 THEN 143
                        ELSE 191
             continues(i) == /\ 1 + i <= Len(bytes)
                             /\ bytes[1 + i] \in low(i)..high(i)
             taken == IF need < 1 THEN 0
                      ELSE CHOOSE j \in 0..need :
                               /\ \A i \in 1..j : continues(i)
                               /\ j < need => ~continues(j + 1)
             bits(i) == bytes[1 + i] - 128
             point == IF need = 0 THEN b
                      ELSE IF need = 1 THEN ((b - 192) * 64) + bits(1)
                      ELSE IF need = 2
                      THEN ((b - 224) * 4096) + (bits(1) * 64) + bits(2)
                      ELSE ((b - 240) * 262144) + (bits(1) * 4096)
                           + (bits(2) * 64) + bits(3)
             rest == SubSeq(bytes, taken + 2, Len(bytes))
         IN  IF need >= 0 /\ taken = need
             THEN <<CodePointChar(point)>> \o Utf8Decode(rest)
             ELSE <<"U+FFFD">> \o Utf8Decode(rest)

Base64Alphabet ==
    <<"A","B","C","D","E","F","G","H","I","J","K","L","M","N","O","P",
      "Q","R","S","T","U","V","W","X","Y","Z","a","b","c","d","e","f",
      "g","h","i","j","k","l","m","n","o","p","q","r","s","t","u","v",
      "w","x","y","z","0","1","2","3","4","5","6","7","8","9","+","/">>

\* buf.toString("base64"): three bytes to four characters, "=" padding.
RECURSIVE Base64Encode(_)
Base64Encode(bytes) ==
    IF Len(bytes) = 0 THEN <<>>
    ELSE IF Len(bytes) = 1
    THEN <<Base64Alphabet[(bytes[1] \div 4) + 1],
           Base64Alphabet[((bytes[1] % 4) * 16) + 1], "=", "=">>
    ELSE IF Len(bytes) = 2
    THEN <<Base64Alphabet[(bytes[1] \div 4) + 1],
           Base64Alphabet[((bytes[1] % 4) * 16) + (bytes[2] \div 16) + 1],
           Base64Alphabet[((bytes[2] % 16) * 4) + 1], "=">>
    ELSE <<Base64Alphabet[(bytes[1] \div 4) + 1],
           Base64Alphabet[((bytes[1] % 4) * 16) + (bytes[2] \div 16) + 1],
           Base64Alphabet[((bytes[2] % 16) * 4) + (bytes[3] \div 64) + 1],
           Base64Alphabet[(bytes[3] % 64) + 1]>>
         \o Base64Encode(SubSeq(bytes, 4, Len(bytes)))

\* The UTF-16 code units of a string, each as a character: a character
\* above U+FFFF is a surrogate pair.
RECURSIVE Utf16(_)
Utf16(str) ==
    IF Len(str) = 0 THEN <<>>
    ELSE LET n == CodePoint(str[1])
         IN  (IF n < 65536 THEN <<str[1]>>
              ELSE <<CodePointChar(55296 + ((n - 65536) \div 1024)),
                     CodePointChar(56320 + ((n - 65536) % 1024))>>)
             \o Utf16(Tail(str))

\* Buffer.from(str, "base64") reads each code unit by its low byte: the
\* character a code unit is read as.
LowByte(c) == CodePointChar(CodePoint(c) % 256)

\* The six bits a character of the alphabet stands for; the URL-safe "-"
\* and "_" are read too.
Base64Sextet ==
    [c \in {Base64Alphabet[k] : k \in 1..Len(Base64Alphabet)} \cup {"-", "_"} |->
        IF c = "-" THEN 62
        ELSE IF c = "_" THEN 63
        ELSE (CHOOSE k \in 1..Len(Base64Alphabet) : Base64Alphabet[k] = c) - 1]

\* A code unit is read as a character of the alphabet, and its six bits.
IsBase64Char(c) == LowByte(c) \in DOMAIN Base64Sextet
Sextet(c) == Base64Sextet[LowByte(c)]

\* The sextets of the code units up to the first one read as "="; code
\* units read as no character of the alphabet are skipped.
RECURSIVE UnitSextets(_)
UnitSextets(units) ==
    IF Len(units) = 0 \/ LowByte(units[1]) = "=" THEN <<>>
    ELSE (IF IsBase64Char(units[1]) THEN <<Sextet(units[1])>> ELSE <<>>)
         \o UnitSextets(Tail(units))

Sextets(chars) == UnitSextets(Utf16(chars))

RECURSIVE BytesOfSextets(_)
BytesOfSextets(s) ==
    IF Len(s) < 2 THEN <<>>
    ELSE IF Len(s) = 2 THEN <<(s[1] * 4) + (s[2] \div 16)>>
    ELSE IF Len(s) = 3
    THEN <<(s[1] * 4) + (s[2] \div 16), ((s[2] % 16) * 16) + (s[3] \div 4)>>
    ELSE <<(s[1] * 4) + (s[2] \div 16), ((s[2] % 16) * 16) + (s[3] \div 4),
           ((s[3] % 4) * 64) + s[4]>>
         \o BytesOfSextets(SubSeq(s, 5, Len(s)))

\* Variant: only whole groups of four characters are decoded.
Base64Decode_WholeGroupsOnly(chars) ==
    LET s == Sextets(chars)
    IN  BytesOfSextets(SubSeq(s, 1, 4 * (Len(s) \div 4)))

\* Buffer.from(str, "base64")
Base64Decode(chars) == BytesOfSextets(Sextets(chars))

DecimalDigits == <<"0","1","2","3","4","5","6","7","8","9">>
DigitValue == [c \in Digit |-> (CHOOSE k \in 1..10 : DecimalDigits[k] = c) - 1]

\* String(n) of a non-negative integer, as a template literal writes it.
RECURSIVE NumberToString(_)
NumberToString(n) ==
    IF n < 10 THEN <<DecimalDigits[n + 1]>>
    ELSE NumberToString(n \div 10) \o <<DecimalDigits[(n % 10) + 1]>>

RECURSIVE DigitsValue(_, _)
DigitsValue(chars, acc) ==
    IF Len(chars) = 0 \/ chars[1] \notin Digit THEN acc
    ELSE DigitsValue(Tail(chars), (acc * 10) + DigitValue[chars[1]])

RECURSIVE TrimStart(_)
TrimStart(chars) ==
    IF Len(chars) > 0 /\ chars[1] \in Whitespace THEN TrimStart(Tail(chars))
    ELSE chars

\* parseInt(str, 10): <<n>> for the number read from the leading sign and
\* digits (after leading whitespace), << >> for NaN.
parseInt(str) ==
    LET s == TrimStart(str)
        signed == Len(s) > 0 /\ s[1] \in {"+", "-"}
        digits == IF signed THEN Tail(s) ELSE s
    IN  IF Len(digits) = 0 \/ digits[1] \notin Digit THEN <<>>
        ELSE IF signed /\ s[1] = "-" THEN <<0 - DigitsValue(digits, 0)>>
        ELSE <<DigitsValue(digits, 0)>>

\* Variant: the e-mail is not tested before the token is built.
generateMagicToken_NoEmailCheck(e, email, ms) ==
    IF e.MAGIC_SIGNIN_KEY = "" THEN NoToken
    ELSE LET data == <<Text(Base64Encode(Utf8Encode(email))),
                       Text(NumberToString(ms)),
                       Text(NumberToString(ms + MagicLifetimeMs))>>
         IN  data \o <<HmacSha256(e.MAGIC_SIGNIN_KEY, data, "hex")>>

\* generateMagicToken(email) at Date.now() = ms:
\* base64(email).issuedAt.expiresAt.hex(HMAC(MAGIC_SIGNIN_KEY, the three)).
generateMagicToken(e, email, ms) ==
    IF email = <<>> \/ e.MAGIC_SIGNIN_KEY = "" THEN NoToken
    ELSE LET encodedEmail == Text(Base64Encode(Utf8Encode(email)))
             issuedAt == ms
             expiresAt == issuedAt + MagicLifetimeMs
             data == <<encodedEmail, Text(NumberToString(issuedAt)),
                       Text(NumberToString(expiresAt))>>
             hash == HmacSha256(e.MAGIC_SIGNIN_KEY, data, "hex")
         IN  data \o <<hash>>

\* "return false" of verifyMagicToken.
MagicRejected == [ok |-> FALSE, email |-> <<>>]

\* The characters of a token part that is plain text. The characters of a
\* digest are those of its hexadecimal rendering, which is not computed
\* here: a token with a digest among its first three parts is outside the
\* domain of the operators below.
PartText(part) == part.txt

\* Variant: a token is expired from the instant expiresAt on.
verifyMagicToken_ExpiredAtExpiry(e, token, ms) ==
    IF token = <<>> THEN MagicRejected
    ELSE IF Len(token) # 4 THEN MagicRejected
    ELSE LET expiry == parseInt(PartText(token[3]))
             validHash ==
                 HmacSha256(e.MAGIC_SIGNIN_KEY,
                            <<token[1], token[2], token[3]>>, "hex")
         IN  IF expiry # <<>> /\ ms >= expiry[1] THEN MagicRejected
             ELSE IF token[4] = validHash
                  THEN [ok |-> TRUE,
                        email |-> Utf8Decode(Base64Decode(PartText(token[1])))]
             ELSE MagicRejected

\* Variant: the hash is not compared.
verifyMagicToken_NoHashCheck(e, token, ms) ==
    IF token = <<>> THEN MagicRejected
    ELSE IF Len(token) # 4 THEN MagicRejected
    ELSE LET expiry == parseInt(PartText(token[3]))
         IN  IF expiry # <<>> /\ ms > expiry[1] THEN MagicRejected
             ELSE [ok |-> TRUE,
                   email |-> Utf8Decode(Base64Decode(PartText(token[1])))]

\* verifyMagicToken(token) at Date.now() = ms: the e-mail it returns, or
\* false.
verifyMagicToken(e, token, ms) ==
    IF token = <<>> THEN MagicRejected
    ELSE IF Len(token) # 4 THEN MagicRejected
    ELSE LET encodedEmail == token[1]
             issuedAt == token[2]
             expiresAt == token[3]
             hash == token[4]
             email == Utf8Decode(Base64Decode(PartText(encodedEmail)))
             expiry == parseInt(PartText(expiresAt))
             validHash ==
                 HmacSha256(e.MAGIC_SIGNIN_KEY,
                            <<encodedEmail, issuedAt, expiresAt>>, "hex")
         IN  IF expiry # <<>> /\ ms > expiry[1] THEN MagicRejected
             ELSE IF hash = validHash THEN [ok |-> TRUE, email |-> email]
             ELSE MagicRejected

-----------------------------------------------------------------------------
(* Token strings a caller may present that the authority never returned *)

UuidToken ==
    << Text(<<"1","2","3","e","4","5","6","7","-","e","8","9","b","-",
              "1","2","d","3","-","a","4","5","6","-",
              "4","2","6","6","1","4","1","7","4","0","0","0">>) >>
ForeignKey == "another-secret"
\* A JWT for account 1 signed by somebody else.
ForgedJwt == jwtSign(1, ForeignKey, AccessLifetime, 0)
\* payload.hex(HMAC(key, payload)): the shape checkTokenSignature accepts.
HexSigned(key) == << Text(<<"p">>), HmacSha256(key, <<Text(<<"p">>)>>, "hex") >>

ForeignTokens(e) ==
    {NoToken, UuidToken, ForgedJwt, HexSigned(e.SECRET_KEY),
     HexSigned(ForeignKey)}

TokenInputs == issued \cup issuedRefresh \cup ForeignTokens(env)

\* The tokens returned so far and one that never was.  deleteSession makes
\* a key of its argument and reads nothing else of it.
ReturnedTokenInputs == issued \cup issuedRefresh \cup {UuidToken}

-----------------------------------------------------------------------------
(* The state machine *)

\* process.env after dotenv.config(): three distinct secrets.
EnvChoices ==
    {[SECRET_KEY |-> "access-secret", REFRESH_SECRET_KEY |-> "refresh-secret",
      MAGIC_SIGNIN_KEY |-> "magic-secret"]}

\* The clock readings at which calls are made: the second of the first
\* call and one after the expiry of an access token signed in it.
ClockReadings == {0, AccessLifetime + 1}

\* The record of the call that returned at a step: its operation and
\* arguments and what it returned; for a call of login or createSession
\* also the rows its queries gave and what the call did on its way.
Call(op, email, password, tok, r) ==
    [op |-> op, email |-> email, password |-> password, tok |-> tok,
     ok |-> r.ok, sessionToken |-> r.sessionToken,
     refreshToken |-> r.refreshToken,
     magicToken |-> NoToken, magicEmail |-> <<>>,
     user |-> <<>>, account |-> <<>>, missed |-> FALSE, written |-> {},
     fault |-> NoFault, faulted |-> FALSE, raised |-> FALSE]

\* A step at which no call returned: a call reached an await.
Await == Call("await", <<>>, <<>>, NoToken, Failure({}))

\* A call of login or createSession that has settled.
SessionCall(call) ==
    [Call(call.op, call.email, call.password, NoToken, Returns(call, {}))
        EXCEPT !.user = call.user, !.account = call.account,
               !.missed = call.missed, !.written = call.written,
               !.fault = call.fault, !.faulted = call.faulted,
               !.raised = call.raised]

\* No magic-link token has been accepted yet.
NoneAccepted == [tok |-> NoToken, email |-> <<>>]

\* State before the module is loaded, common to every specification.
Start ==
    /\ service = "unloaded"
    /\ now = 0
    /\ nowMs = 0
    /\ accounts = AccountTable
    /\ redis = {}
    /\ sessions = 0
    /\ issued = {}
    /\ issuedRefresh = {}
    /\ revoked = {}
    /\ last = Call("none", <<>>, <<>>, NoToken, Failure({}))
    /\ calls = [c \in Callers |-> NoCall]
    /\ accepted = NoneAccepted

Init ==
    /\ env \in EnvChoices
    /\ Start

\* const authService = new AuthService(): runs once, when the module is
\* loaded; a throw leaves the module without an instance.
Construct ==
    /\ service = "unloaded"
    /\ service' = IF Constructed(env) THEN "ready" ELSE "failed"
    /\ UNCHANGED <<accepted, accounts, calls, env, now, nowMs, redis, sessions,
                   issued, issuedRefresh, revoked, last>>

\* The calls of login and createSession in flight.
Opening ==
    {c \in Callers : /\ calls[c].op \in {"login", "createSession"}
                     /\ calls[c].pc \notin {"idle", "done"}}

\* A call of login or createSession has run to its next await, or to its
\* return: then its caller takes the result.
Proceed(c, r) ==
    /\ redis' = r.redis
    /\ IF r.call.pc = "done"
       THEN /\ calls' = [calls EXCEPT ![c] = NoCall]
            /\ last' = SessionCall(r.call)
            /\ sessions' = IF r.call.ok THEN sessions + 1 ELSE sessions
            /\ issued' = IF r.call.ok THEN issued \cup {r.call.sessionToken}
                                      ELSE issued
            /\ issuedRefresh' =
                   IF r.call.ok THEN issuedRefresh \cup {r.call.refreshToken}
                                ELSE issuedRefresh
       ELSE /\ calls' = [calls EXCEPT ![c] = r.call]
            /\ last' = Await
            /\ UNCHANGED <<sessions, issued, issuedRefresh>>
    /\ UNCHANGED <<accepted, accounts, env, service, now, nowMs, revoked>>

\* login(email, password) is called and runs to its first await.
Login(c, email, password) ==
    /\ service = "ready"
    /\ calls[c].pc = "idle"
    /\ sessions + Cardinality(Opening) < MaxSessions
    /\ Proceed(c, [call |-> loginBegin(email, password), redis |-> redis])

\* createSession(email) is called and runs to its first await.
CreateSession(c, email) ==
    /\ service = "ready"
    /\ calls[c].pc = "idle"
    /\ sessions + Cardinality(Opening) < MaxSessions
    /\ Proceed(c, [call |-> createSessionBegin(
                                [NoCall EXCEPT !.op = "createSession",
                                               !.email = email]),
                   redis |-> redis])

\* The query or Redis command a call of login or createSession awaits
\* runs, and the call runs on to its next await or to its return.
SessionResume(c) ==
    /\ c \in Opening
    /\ Proceed(c, sessionResume(env, accounts, redis, calls[c], now))

\* The query or Redis command a call of login or createSession awaits
\* rejects.
SessionReject(c) ==
    /\ c \in Opening
    /\ Proceed(c, [call |-> Caught(calls[c]), redis |-> redis])

\* The calls of verifySession and deleteSession in flight.
Presenting ==
    {c \in Callers : /\ calls[c].op \in {"verifySession", "deleteSession"}
                     /\ calls[c].pc \notin {"idle", "done"}}

\* A call of verifySession or deleteSession that has settled.
TokenCall(call) ==
    [Call(call.op, <<>>, <<>>, call.tok,
          [Failure({}) EXCEPT !.ok = call.ok])
        EXCEPT !.fault = call.fault, !.faulted = call.faulted,
               !.raised = call.raised]

\* A call of verifySession or deleteSession has run to its await, or to
\* its return: then its caller takes the result.
ProceedToken(c, r) ==
    /\ redis' = r.redis
    /\ IF r.call.pc = "done"
       THEN /\ calls' = [calls EXCEPT ![c] = NoCall]
            /\ last' = TokenCall(r.call)
            /\ revoked' = IF r.call.op = "deleteSession" /\ r.call.ok
                          THEN revoked \cup {r.call.tok} ELSE revoked
       ELSE /\ calls' = [calls EXCEPT ![c] = r.call]
            /\ last' = Await
            /\ UNCHANGED revoked
    /\ UNCHANGED <<accepted, accounts, env, service, now, nowMs, sessions,
                   issued, issuedRefresh>>

\* verifySession(tok) is called and runs to its await, or to the return
\* of its catch block.
VerifySession(c, tok) ==
    /\ service = "ready"
    /\ calls[c].pc = "idle"
    /\ ProceedToken(c, [call |-> verifySessionBegin(env, tok),
                        redis |-> redis])

\* deleteSession(tok) is called and runs to its await.  Kept with the
\* call: whether the entry of the token was in the cache at the call.
DeleteSession(c, tok) ==
    /\ service = "ready"
    /\ calls[c].pc = "idle"
    /\ ProceedToken(c, [call |-> [deleteSessionBegin(tok) EXCEPT
                                     !.live = redisGet(redis, SessionKey(tok),
                                                       now) # <<>>],
                        redis |-> redis])

\* Redis runs the command a call of verifySession or deleteSession
\* awaits, and the call runs on to its return.
TokenResume(c) ==
    /\ c \in Presenting
    /\ ProceedToken(c, IF calls[c].op = "verifySession"
                       THEN verifySessionResume(env, redis, calls[c], now)
                       ELSE deleteSessionResume(redis, calls[c], now))

\* The Redis command a call of verifySession or deleteSession awaits
\* rejects.
TokenReject(c) ==
    /\ c \in Presenting
    /\ ProceedToken(c, [call |-> Caught(calls[c]), redis |-> redis])

RefreshSession(tok) ==
    /\ service = "ready"
    /\ LET r == refreshSession(env, redis, tok, now)
       IN  /\ redis' = r.redis
           /\ issued' = IF r.ok THEN issued \cup {r.sessionToken} ELSE issued
           /\ last' = Call("refreshSession", <<>>, <<>>, tok, r)
    /\ UNCHANGED <<accepted, accounts, calls, env, service, now, nowMs,
                   sessions, issuedRefresh, revoked>>

\* The clock advances; Redis drops the keys whose TTL has run out.
Tick(t) ==
    /\ t > now
    /\ now' = t
    /\ nowMs' = t * 1000
    /\ redis' = redisLive(redis, t)
    /\ last' = Call("tick", <<>>, <<>>, NoToken, Failure({}))
    /\ UNCHANGED <<accepted, accounts, calls, env, service, sessions, issued,
                   issuedRefresh, revoked>>

\* The record of a call of AccountService.
AccountCall(op, data, ok, raised) ==
    [Call(op, <<>>, <<>>, NoToken, [Failure({}) EXCEPT !.ok = ok])
        EXCEPT !.account = <<data>>, !.raised = raised]

\* createAccount(data): no row is inserted.
CreateAccount(data) ==
    /\ last' = AccountCall("createAccount", data, FALSE,
                           createAccount(data) = "raised")
    /\ UNCHANGED <<accepted, accounts, calls, env, service, now, nowMs, redis,
                   sessions, issued, issuedRefresh, revoked>>

\* A call of updateAccountDetails or deleteAccount has run to its next
\* await, or to its return.
ProceedUpdate(c, r) ==
    /\ accounts' = r.accounts
    /\ IF r.call.pc = "done"
       THEN /\ calls' = [calls EXCEPT ![c] = NoCall]
            /\ last' = AccountCall(r.call.op, r.call.data, r.call.ok, FALSE)
       ELSE /\ calls' = [calls EXCEPT ![c] = r.call]
            /\ last' = Await
    /\ UNCHANGED <<accepted, env, service, now, nowMs, redis, sessions,
                   issued, issuedRefresh, revoked>>

\* updateAccountDetails(data) is called and runs to its first await.
UpdateAccountDetails(c, data) ==
    /\ calls[c].pc = "idle"
    /\ ProceedUpdate(c, [call |-> updateAccountDetailsBegin(data),
                         accounts |-> accounts])

\* The statement a call of updateAccountDetails awaits runs, and the call
\* runs on.
UpdateAccountDetailsResume(c) ==
    /\ calls[c].op = "updateAccountDetails"
    /\ calls[c].pc \notin {"idle", "done"}
    /\ ProceedUpdate(c, updateAccountDetailsResume(accounts, calls[c]))

\* deleteAccount(id) is called and runs to its await.
DeleteAccount(c, id) ==
    /\ calls[c].pc = "idle"
    /\ ProceedUpdate(c, [call |-> deleteAccountBegin(id),
                         accounts |-> accounts])

\* The DELETE a call of deleteAccount awaits runs, and the call returns.
DeleteAccountResume(c) ==
    /\ calls[c].op = "deleteAccount"
    /\ calls[c].pc \notin {"idle", "done"}
    /\ ProceedUpdate(c, deleteAccountResume(accounts, calls[c]))

MagicCall(op, email, tok, ok, magicToken, magicEmail) ==
    [Call(op, email, <<>>, tok, [Failure({}) EXCEPT !.ok = ok])
        EXCEPT !.magicToken = magicToken, !.magicEmail = magicEmail]

GenerateMagicToken(email) ==
    /\ service = "ready"
    /\ LET token == generateMagicToken(env, email, nowMs)
       IN  last' = MagicCall("generateMagicToken", email, NoToken,
                             token # NoToken, token, <<>>)
    /\ UNCHANGED <<accepted, accounts, calls, env, service, now, nowMs, redis,
                   sessions, issued, issuedRefresh, revoked>>

\* Variant: a redeemed link opens a session for its e-mail.
VerifyMagicToken_CreatesSession(tok) ==
    /\ service = "ready"
    /\ LET r == verifyMagicToken(env, tok, nowMs)
           s == IF r.ok /\ sessions < MaxSessions
                THEN createSession(env, accounts, redis, r.email, now)
                ELSE Failure(redis)
       IN  /\ redis' = s.redis
           /\ sessions' = IF s.ok THEN sessions + 1 ELSE sessions
           /\ issued' = IF s.ok THEN issued \cup {s.sessionToken} ELSE issued
           /\ issuedRefresh' =
                  IF s.ok THEN issuedRefresh \cup {s.refreshToken}
                          ELSE issuedRefresh
           /\ last' = [MagicCall("verifyMagicToken", <<>>, tok, r.ok, NoToken,
                                 r.email)
                          EXCEPT !.sessionToken = s.sessionToken,
                                 !.refreshToken = s.refreshToken]
    /\ UNCHANGED <<accepted, accounts, calls, env, service, now, nowMs,
                   revoked>>

VerifyMagicToken(tok) ==
    /\ service = "ready"
    /\ LET r == verifyMagicToken(env, tok, nowMs)
       IN  last' = MagicCall("verifyMagicToken", <<>>, tok, r.ok, NoToken,
                             r.email)
    /\ UNCHANGED <<accepted, accounts, calls, env, service, now, nowMs, redis,
                   sessions, issued, issuedRefresh, revoked>>

\* Variant: a link is good for one redemption.
RedeemMagicToken_Consumes(tok) ==
    /\ service = "ready"
    /\ LET r == verifyMagicToken(env, tok, nowMs)
           ok == r.ok /\ tok # accepted.tok
       IN  /\ last' = MagicCall("verifyMagicToken", <<>>, tok, ok, NoToken,
                                IF ok THEN r.email ELSE <<>>)
           /\ accepted' = IF ok THEN [tok |-> tok, email |-> r.email]
                                ELSE accepted
    /\ UNCHANGED <<accounts, calls, env, service, now, nowMs, redis, sessions,
                   issued, issuedRefresh, revoked>>

\* verifyMagicToken(tok), with the token and e-mail of an accepting call
\* kept for later comparison.
RedeemMagicToken(tok) ==
    /\ service = "ready"
    /\ LET r == verifyMagicToken(env, tok, nowMs)
       IN  /\ last' = MagicCall("verifyMagicToken", <<>>, tok, r.ok, NoToken,
                                r.email)
           /\ accepted' = IF r.ok THEN [tok |-> tok, email |-> r.email]
                                  ELSE accepted
    /\ UNCHANGED <<accounts, calls, env, service, now, nowMs, redis, sessions,
                   issued, issuedRefresh, revoked>>

\* The magic-link calls made next to the session calls: a link for the
\* first account, minted at the first clock reading.
SessionMagicEmails == {Email1}
SessionMagicTokens == {generateMagicToken(env, Email1, 0)}

\* The caller that opens sessions, the caller of updateAccountDetails and
\* the caller of verifySession, deleteSession and deleteAccount: the calls
\* of each are followed from await to await.
Client == 1
Admin == 2
Peer == 3

Next ==
    \/ Construct
    \/ \E email \in SessionMagicEmails : GenerateMagicToken(email)
    \/ \E tok \in SessionMagicTokens : VerifyMagicToken(tok)
    \/ \E c \in LoginInputs : Login(Client, c[1], c[2])
    \/ \E email \in EmailInputs : CreateSession(Client, email)
    \/ SessionResume(Client)
    \/ \E tok \in TokenInputs : VerifySession(Peer, tok)
    \/ \E tok \in ReturnedTokenInputs : DeleteSession(Peer, tok)
    \/ TokenResume(Peer)
    \/ \E tok \in TokenInputs : RefreshSession(tok)
    \/ \E t \in ClockReadings : Tick(t)

Spec == Init /\ [][Next]_vars

-----------------------------------------------------------------------------
(* The magic-link codec on its own, at millisecond resolution *)

\* Date.now() at the calls: two minting instants and the milliseconds
\* around the expiry of a link minted at each.
MagicClockReadings ==
    {0, 1000, MagicLifetimeMs, MagicLifetimeMs + 1, MagicLifetimeMs + 1000,
     MagicLifetimeMs + 1001}

\* "jos\u00e9@e.co": its UTF-8 encoding has a two-byte character.
AccentedEmail == <<"j","o","s","U+00E9","@","e",".","c","o">>

\* E-mails of 11, 10 and 13 bytes (each base64 padding), one of them with a
\* character outside ASCII, and the empty one.
MagicEmailInputs == {Email1, AccentedEmail, BadEmail, <<>>}

\* The tokens generateMagicToken returns for these e-mails at the readings
\* up to ms.
GenuineMagicTokens(e, ms) ==
    {generateMagicToken(e, email, t0) :
        email \in MagicEmailInputs \ {<<>>},
        t0 \in {r \in MagicClockReadings : r <= ms}}

\* The parts split(".") gives for a plain-text part whose p-th character
\* was replaced by c.
ReplaceChar(part, p, c) ==
    IF c = "."
    THEN <<Text(SubSeq(part.txt, 1, p - 1)),
           Text(SubSeq(part.txt, p + 1, Len(part.txt)))>>
    ELSE <<Text([part.txt EXCEPT ![p] = c])>>

\* A hex digest with one of its characters changed.
FlippedDigest(d) == [enc |-> "hex-flipped", key |-> d.key, of |-> d.of]

\* The characters written over one: a letter, a digit, the separator, and
\* U+0141, which the base64 decoder reads as "A".
TamperChars == {"A", "9", ".", "U+0141"}

\* A magic token with a single character of one segment changed: the first
\* or the last character of the encoded e-mail, of issuedAt or of
\* expiresAt, or a character of the hash.
TamperedAt(token, seg, p) ==
    {SubSeq(token, 1, seg - 1) \o ReplaceChar(token[seg], p, c)
         \o SubSeq(token, seg + 1, Len(token)) :
        c \in {x \in TamperChars : x # token[seg].txt[p]}}

Tampered(token) ==
    UNION {TamperedAt(token, seg, 1) \cup
           TamperedAt(token, seg, Len(token[seg].txt)) : seg \in 1..3}
    \cup {[token EXCEPT ![4] = FlippedDigest(token[4])]}

\* "invalid.token"
InvalidMagicToken == <<Text(<<"i","n","v","a","l","i","d">>),
                       Text(<<"t","o","k","e","n">>)>>
\* A well-formed magic token keyed by somebody else.
ForgedMagicToken ==
    generateMagicToken([MAGIC_SIGNIN_KEY |-> ForeignKey], Email1, 0)

MagicTokenInputs ==
    LET genuine == GenuineMagicTokens(env, nowMs)
    IN  genuine \cup UNION {Tampered(token) : token \in genuine}
        \cup {NoToken, InvalidMagicToken, ForgedMagicToken}

MagicTick(ms) ==
    /\ ms > nowMs
    /\ nowMs' = ms
    /\ now' = ms \div 1000
    /\ redis' = redisLive(redis, ms \div 1000)
    /\ last' = Call("tick", <<>>, <<>>, NoToken, Failure({}))
    /\ UNCHANGED <<accepted, accounts, calls, env, service, sessions, issued,
                   issuedRefresh, revoked>>

MagicNext ==
    \/ Construct
    \/ \E email \in MagicEmailInputs : GenerateMagicToken(email)
    \/ \E tok \in MagicTokenInputs : VerifyMagicToken(tok)
    \/ \E ms \in MagicClockReadings : MagicTick(ms)

MagicSpec == Init /\ [][MagicNext]_vars

-----------------------------------------------------------------------------
(* Repeated redemptions of magic links *)

\* The links minted for two e-mails at the readings so far, a malformed
\* token and a link keyed by somebody else.
RedeemEmailInputs == {Email1, UnknownEmail}
RedeemTokenInputs ==
    {generateMagicToken(env, email, t0) :
        email \in RedeemEmailInputs,
        t0 \in {r \in MagicClockReadings : r <= nowMs}}
    \cup {InvalidMagicToken, ForgedMagicToken}

RedeemNext ==
    \/ Construct
    \/ \E email \in RedeemEmailInputs : GenerateMagicToken(email)
    \/ \E tok \in RedeemTokenInputs : RedeemMagicToken(tok)
    \/ \E ms \in MagicClockReadings : MagicTick(ms)

RedeemSpec == Init /\ [][RedeemNext]_vars

-----------------------------------------------------------------------------
(* The session operations when the database or Redis may reject a call *)

\* A reduced set of calls: one account and an unknown identifier, the
\* tokens returned so far and two foreign ones, the first two seconds.
CoreLoginInputs == {<<Email1, Secret1>>, <<UnknownEmail, WrongPw>>}
CoreEmailInputs == {Email1, UnknownEmail}
CoreTokenInputs ==
    issued \cup issuedRefresh \cup {UuidToken, HexSigned(env.SECRET_KEY)}
CoreClockReadings == {0, 1}

\* The record of a call of refreshSession for which the awaited call f was
\* chosen to reject: fault names f when the operation got as far as f and
\* f rejected.
FaultCall(op, email, password, tok, f, r) ==
    [Call(op, email, password, tok, r)
        EXCEPT !.fault = IF r.faulted THEN f ELSE NoFault,
               !.faulted = r.faulted, !.raised = r.raised]

\* The calls an operation awaits, and no failure at all.
FaultChoices(op) ==
    {NoFault} \cup
    CASE op = "refreshSession" ->
             {"refreshSession:get", "refreshSession:set",
              "refreshSession:del"}

RefreshSessionFaulty(tok, f) ==
    /\ service = "ready"
    /\ LET r == refreshSessionFaulty(f, env, redis, tok, now)
       IN  /\ redis' = r.redis
           /\ issued' = IF r.ok THEN issued \cup {r.sessionToken} ELSE issued
           /\ last' = FaultCall("refreshSession", <<>>, <<>>, tok, f, r)
    /\ UNCHANGED <<accepted, accounts, calls, env, service, now, nowMs,
                   sessions, issuedRefresh, revoked>>

\* The query, comparison or Redis command a call of login, createSession,
\* verifySession or deleteSession awaits either runs or rejects.
FaultNext ==
    \/ Construct
    \/ \E c \in CoreLoginInputs : Login(Client, c[1], c[2])
    \/ \E email \in CoreEmailInputs : CreateSession(Client, email)
    \/ SessionResume(Client)
    \/ SessionReject(Client)
    \/ \E tok \in CoreTokenInputs : VerifySession(Peer, tok)
    \/ \E tok \in CoreTokenInputs : DeleteSession(Peer, tok)
    \/ TokenResume(Peer)
    \/ TokenReject(Peer)
    \/ \E tok \in CoreTokenInputs, f \in FaultChoices("refreshSession") :
          RefreshSessionFaulty(tok, f)
    \/ \E t \in CoreClockReadings : Tick(t)

FaultSpec == Init /\ [][FaultNext]_vars

-----------------------------------------------------------------------------
(* The session operations while AccountService changes the account table *)

\* The changes made to the accounts: the first account is deleted, is given
\* a new password (stored as it is given) in an update that names every
\* column, is given another e-mail.
DeleteInputs == {1}
UpdateInputs ==
    {[ID |-> 1, Email |-> Email1, Verified |-> "1",
      Password |-> PlainText(NewSecret), FirstName |-> "John",
      LastName |-> "Doe", Sex |-> "M", Role |-> "USER"],
     [ID |-> 1, Email |-> UnknownEmail]}
\* createAccount with and without an e-mail.
CreateInputs ==
    {[Email |-> UnknownEmail, Password |-> PlainText(NewSecret)],
     [Password |-> PlainText(NewSecret)]}

\* The credentials of login, with the new password of the first account.
AccountLoginInputs == LoginInputs \cup {<<Email1, NewSecret>>}

AccountNext ==
    \/ Construct
    \/ \E c \in AccountLoginInputs : Login(Client, c[1], c[2])
    \/ \E email \in EmailInputs : CreateSession(Client, email)
    \/ SessionResume(Client)
    \/ \E data \in CreateInputs : CreateAccount(data)
    \/ \E id \in DeleteInputs : DeleteAccount(Peer, id)
    \/ DeleteAccountResume(Peer)
    \/ \E data \in UpdateInputs : UpdateAccountDetails(Admin, data)
    \/ UpdateAccountDetailsResume(Admin)
    \/ \E t \in CoreClockReadings : Tick(t)

AccountSpec == Init /\ [][AccountNext]_vars

-----------------------------------------------------------------------------
(* The service under each configuration of process.env *)

\* process.env.X || "": an absent variable reads as the empty string.
\* Three distinct secrets; one secret absent or empty (each, and all); one
\* value used for two roles (each pair) and for all three.
ConfigChoices ==
    EnvChoices \cup
    {[SECRET_KEY |-> "", REFRESH_SECRET_KEY |-> "refresh-secret",
      MAGIC_SIGNIN_KEY |-> "magic-secret"],
     [SECRET_KEY |-> "access-secret", REFRESH_SECRET_KEY |-> "",
      MAGIC_SIGNIN_KEY |-> "magic-secret"],
     [SECRET_KEY |-> "access-secret", REFRESH_SECRET_KEY |-> "refresh-secret",
      MAGIC_SIGNIN_KEY |-> ""],
     [SECRET_KEY |-> "", REFRESH_SECRET_KEY |-> "", MAGIC_SIGNIN_KEY |-> ""],
     [SECRET_KEY |-> "shared-secret", REFRESH_SECRET_KEY |-> "shared-secret",
      MAGIC_SIGNIN_KEY |-> "magic-secret"],
     [SECRET_KEY |-> "shared-secret", REFRESH_SECRET_KEY |-> "refresh-secret",
      MAGIC_SIGNIN_KEY |-> "shared-secret"],
     [SECRET_KEY |-> "access-secret", REFRESH_SECRET_KEY |-> "shared-secret",
      MAGIC_SIGNIN_KEY |-> "shared-secret"],
     [SECRET_KEY |-> "shared-secret", REFRESH_SECRET_KEY |-> "shared-secret",
      MAGIC_SIGNIN_KEY |-> "shared-secret"]}

ConfigInit ==
    /\ env \in ConfigChoices
    /\ Start

ConfigNext ==
    \/ Construct
    \/ \E c \in CoreLoginInputs : Login(Client, c[1], c[2])
    \/ \E email \in CoreEmailInputs : CreateSession(Client, email)
    \/ SessionResume(Client)
    \/ \E tok \in CoreTokenInputs : VerifySession(Peer, tok)
    \/ \E tok \in CoreTokenInputs : DeleteSession(Peer, tok)
    \/ TokenResume(Peer)
    \/ \E tok \in CoreTokenInputs : RefreshSession(tok)
    \/ \E email \in SessionMagicEmails : GenerateMagicToken(email)
    \/ \E tok \in SessionMagicTokens : VerifyMagicToken(tok)
    \/ \E t \in CoreClockReadings : Tick(t)

ConfigSpec == ConfigInit /\ [][ConfigNext]_vars

-----------------------------------------------------------------------------
(* The session operations over the seven days of a refresh token *)

\* The first two seconds and the seconds around the expiry of a refresh
\* token issued in either.
RefreshClockReadings ==
    {0, 1, RefreshLifetime - 1, RefreshLifetime, RefreshLifetime + 1}

ExpiryNext ==
    \/ Construct
    \/ \E c \in CoreLoginInputs : Login(Client, c[1], c[2])
    \/ \E email \in CoreEmailInputs : CreateSession(Client, email)
    \/ SessionResume(Client)
    \/ \E tok \in ReturnedTokenInputs : VerifySession(Peer, tok)
    \/ \E tok \in ReturnedTokenInputs : DeleteSession(Peer, tok)
    \/ TokenResume(Peer)
    \/ \E tok \in ReturnedTokenInputs : RefreshSession(tok)
    \/ \E t \in RefreshClockReadings : Tick(t)

ExpirySpec == Init /\ [][ExpiryNext]_vars

-----------------------------------------------------------------------------
(* Calls of createSession, deleteSession and refreshSession that interleave *)

\* A caller starts a call: it runs to its first await, or to its return.
\* peers are the callers whose pending call it overlaps.
Begin(c, call, live, peers) ==
    /\ service = "ready"
    /\ calls[c].pc = "idle"
    /\ calls' =
           [d \in Callers |->
               IF d = c THEN [call EXCEPT !.overlapped = peers, !.live = live]
               ELSE IF d \in peers
                    THEN [calls[d] EXCEPT !.overlapped = @ \cup {c}]
                    ELSE calls[d]]
    /\ UNCHANGED <<accepted, accounts, env, service, now, nowMs, redis,
                   sessions, issued, issuedRefresh, revoked, last>>

\* deleteSession(tok) is called; it overlaps the calls of deleteSession
\* with the token that wait for the reply to their redis.del.
DeleteSessionBegin(c, tok) ==
    Begin(c, deleteSessionBegin(tok),
          redisGet(redis, SessionKey(tok), now) # <<>>,
          {d \in Callers \ {c} : /\ calls[d].op = "deleteSession"
                                  /\ calls[d].tok = tok
                                  /\ calls[d].pc = "deleteSession:del"})

\* The callers whose call of refreshSession with the token is suspended
\* at an await.
RefreshPeers(c, tok) ==
    {d \in Callers \ {c} : /\ calls[d].op = "refreshSession"
                            /\ calls[d].tok = tok
                            /\ calls[d].pc \notin {"idle", "done"}}

\* refreshSession(tok) is called; it overlaps the calls of refreshSession
\* with the token that are suspended.
RefreshSessionBegin(c, tok) ==
    Begin(c, refreshSessionBegin(env, tok),
          redisGet(redis, RefreshKey(tok), now) # <<>>, RefreshPeers(c, tok))

\* Redis runs the command a suspended call awaits and the call runs on to
\* its next await or to its return.
Resume(c) ==
    /\ calls[c].op \in {"deleteSession", "refreshSession"}
    /\ calls[c].pc \notin {"idle", "done"}
    /\ LET call == calls[c]
           r == IF call.op = "deleteSession"
                THEN deleteSessionResume(redis, call, now)
                ELSE refreshSessionResume(env, redis, call, now)
           returned == r.call.pc = "done" /\ r.call.ok
       IN  /\ calls' = [calls EXCEPT ![c] = r.call]
           /\ redis' = r.redis
           /\ revoked' = IF returned /\ call.op = "deleteSession"
                         THEN revoked \cup {call.tok} ELSE revoked
           /\ issued' = IF returned /\ call.op = "refreshSession"
                        THEN issued \cup {r.call.newSessionToken} ELSE issued
    /\ UNCHANGED <<accepted, accounts, env, service, now, nowMs, sessions,
                   issuedRefresh, last>>

\* The caller takes the result of its settled call.
Return(c) ==
    /\ calls[c].op \in {"deleteSession", "refreshSession"}
    /\ calls[c].pc = "done"
    /\ calls' = [calls EXCEPT ![c] = NoCall]
    /\ UNCHANGED <<accepted, accounts, env, service, now, nowMs, redis,
                   sessions, issued, issuedRefresh, revoked, last>>

\* Nothing serialises the calls: sessions are created while calls of
\* deleteSession and refreshSession are pending, and those begin while a
\* session is being created.
ConcurrentNext ==
    \/ Construct
    \/ \E email \in CoreEmailInputs : CreateSession(Client, email)
    \/ SessionResume(Client)
    \/ \E c \in Callers, tok \in issued : DeleteSessionBegin(c, tok)
    \/ \E c \in Callers, tok \in issuedRefresh : RefreshSessionBegin(c, tok)
    \/ \E c \in Callers : Resume(c)
    \/ \E c \in Callers : Return(c)
    \/ \E t \in CoreClockReadings : Tick(t)

ConcurrentSpec == Init /\ [][ConcurrentNext]_vars

-----------------------------------------------------------------------------
(* refreshSession past its format check, as the repository's test runs it *)

\* The service as deployed never gets past the format check of
\* refreshSession.  The repository's test of refreshSession replaces
\* validationService.checkRefreshTokenFormat by a stub that returns true;
\* the calls of refreshSession below are made with that stub in place, all
\* else being the service's own code.

\* refreshSession(tok) is called with the stub in place.
RefreshSessionBeginStubbed(c, tok) ==
    Begin(c, refreshSessionBeginStubbed(tok),
          redisGet(redis, RefreshKey(tok), now) # <<>>, RefreshPeers(c, tok))

\* The Redis command a suspended call of refreshSession awaits rejects:
\* Redis is left as it is and the call returns false.
Reject(c) ==
    /\ calls[c].op = "refreshSession"
    /\ calls[c].pc \notin {"idle", "done"}
    /\ calls' = [calls EXCEPT ![c] = Caught(calls[c])]
    /\ UNCHANGED <<accepted, accounts, env, service, now, nowMs, redis,
                   sessions, issued, issuedRefresh, revoked, last>>

\* The two accounts, and the callers of refreshSession, each of which
\* makes one call.
StubbedEmailInputs == {Email1, Email2}
StubbedCallers == Callers \ {Client}
\* The second account is given the e-mail of the first.
StubbedUpdateInputs == {[ID |-> 2, Email |-> Email1]}

StubbedNext ==
    \/ Construct
    \/ \E email \in StubbedEmailInputs : CreateSession(Client, email)
    \/ SessionResume(Client)
    \/ \E data \in StubbedUpdateInputs : UpdateAccountDetails(Admin, data)
    \/ UpdateAccountDetailsResume(Admin)
    \/ \E c \in StubbedCallers, tok \in issuedRefresh :
          RefreshSessionBeginStubbed(c, tok)
    \/ \E c \in StubbedCallers : Resume(c)
    \/ \E c \in StubbedCallers : Reject(c)
    \/ \E t \in CoreClockReadings : Tick(t)

StubbedSpec == Init /\ [][StubbedNext]_vars

-----------------------------------------------------------------------------
(* Properties *)

HasSession(rds, tok, t) == redisGet(rds, SessionKey(tok), t) # <<>>
HasRefresh(rds, tok, t) == redisGet(rds, RefreshKey(tok), t) # <<>>
Existing(email) == Len(query(accounts, email)) > 0

\* C1: a successful createSession followed immediately by verifySession on
\* the returned session token returns true.
C1_CreateThenVerify ==
    [][ ( /\ last.op = "createSession" /\ last.ok
          /\ last'.op = "verifySession"
          /\ last'.tok = last.sessionToken )
        => last'.ok ]_vars

\* C2: verifySession on a token for which deleteSession has returned true
\* returns false, also before the token's embedded expiry.
C2_RevokedIsRejected ==
    (last.op = "verifySession" /\ last.tok \in revoked) => ~last.ok

\* A revoked, still unexpired access token was presented and rejected.
C2_Witness ==
    /\ last.op = "verifySession"
    /\ last.tok \in revoked
    /\ jwtVerify(last.tok, env.SECRET_KEY, now)
    /\ ~last.ok

\* C3: the first refreshSession with a refresh token createSession returned
\* succeeds and returns a new access token; a further refreshSession with
\* the same token fails.
C3_RefreshExactlyOnce ==
    [][ /\ ( /\ last.op = "createSession" /\ last.ok
             /\ last'.op = "refreshSession"
             /\ last'.tok = last.refreshToken )
           => (last'.ok /\ last'.sessionToken # NoToken)
        /\ ( /\ last.op = "refreshSession" /\ last.ok
             /\ last'.op = "refreshSession"
             /\ last'.tok = last.tok )
           => ~last'.ok ]_vars

LoginSucceeded ==
    /\ last.ok
    /\ last.sessionToken # NoToken
    /\ last.refreshToken # NoToken
    /\ last.sessionToken # last.refreshToken

\* The account row a login was made against: the row its query read; for a
\* login that returned before its query, the row the table holds.
LoginUser ==
    IF last.user # <<>> THEN last.user
    ELSE IF last.missed THEN <<>>
    ELSE query(accounts, last.email)

\* The secret is the one the account was provisioned with, and its hash is
\* what the row holds.
IsStoredSecret(row, password) ==
    /\ password = StoredSecret(row.ID)
    /\ row.Password = bcryptHash(StoredSecret(row.ID))

\* C4 as stated: for an existing identifier, login with the secret whose hash
\* is stored succeeds with two distinct non-empty tokens, and login with any
\* other secret fails.
C4_Original ==
    (last.op = "login" /\ LoginUser # <<>>) =>
        IF IsStoredSecret(LoginUser[1], last.password)
        THEN LoginSucceeded
        ELSE ~last.ok

\* C5: verifySession(t) returns true exactly when t is a validly signed,
\* unexpired access token and the cache holds an entry for t.
C5_VerifyIff ==
    last.op = "verifySession" =>
        (last.ok <=> ( /\ jwtVerify(last.tok, env.SECRET_KEY, now)
                       /\ HasSession(redis, last.tok, now) ))

\* C6: verifySession returns true only for token strings that createSession
\* or refreshSession returned.
C6_OnlyIssuedVerify ==
    (last.op = "verifySession" /\ last.ok) =>
        last.tok \in (issued \cup issuedRefresh)

\* Tokens the authority never returned (one of them signed with another
\* key, one in the shape the signature check accepts) were rejected.
C6_Witness ==
    /\ last.op = "verifySession"
    /\ last.tok \in {ForgedJwt, HexSigned(env.SECRET_KEY)}
    /\ last.tok \notin (issued \cup issuedRefresh)
    /\ ~last.ok

\* C7: an access token carries an expiry 15 minutes after its issuance, and
\* verifySession returns false for it once more than 15 minutes have passed
\* since it was issued, deleted or not.
C7_ExpiredIsRejected ==
    /\ \A t \in issued : t[2].exp = t[2].iat + AccessLifetime
    /\ ( /\ last.op = "verifySession"
         /\ last.tok \in issued
         /\ now > last.tok[2].iat + AccessLifetime )
       => ~last.ok

\* An issued, never deleted access token whose cache entry is still there
\* was presented more than 15 minutes after its issuance and rejected.
C7_Witness ==
    /\ last.op = "verifySession"
    /\ last.tok \in issued
    /\ last.tok \notin revoked
    /\ HasSession(redis, last.tok, now)
    /\ now > last.tok[2].iat + AccessLifetime
    /\ ~last.ok

\* C8: deleteSession(t) returns true exactly when an entry for access token
\* t was in the cache when its redis.del ran, the entry is gone afterwards,
\* and a second deleteSession on the same token right after returns false:
\* called at the return of the first it finds no entry, and a call that
\* found none, whose redis.del runs with no step of another call in
\* between, returns false.
C8_DeleteIffRemoved ==
    [][ /\ last'.op = "deleteSession" =>
             /\ last'.ok <=> HasSession(redis, last'.tok, now)
             /\ ~HasSession(redis', last'.tok, now')
             /\ redis' = {x \in redis : x.key # SessionKey(last'.tok)}
        /\ \A c \in Callers :
              /\ ( /\ last.op = "deleteSession"
                   /\ calls[c].pc = "idle"
                   /\ calls'[c].op = "deleteSession"
                   /\ calls'[c].tok = last.tok )
                 => ~calls'[c].live
              /\ ( /\ calls[c].op = "deleteSession"
                   /\ ~calls[c].live
                   /\ last = Await
                   /\ \A d \in Callers \ {c} : calls[d].pc = "idle"
                   /\ last'.op = "deleteSession"
                   /\ calls'[c].pc = "idle" )
                 => ~last'.ok ]_vars

\* deleteSession was called on a token it had already deleted, and
\* returned false.
C8_Witness ==
    /\ last.op = "deleteSession"
    /\ last.tok \in revoked
    /\ last.tok \in issued
    /\ ~last.ok

C10_RefreshFailsClosed ==
    [][ ( /\ last'.op = "refreshSession"
          /\ \/ ~checkRefreshTokenFormat(env, last'.tok)
             \/ ~HasRefresh(redis, last'.tok, now) )
        => (~last'.ok /\ redis' = redis) ]_vars

\* refreshSession was called on a token that fails the structural check
\* while its refresh entry is in the cache, returned false, and the entry is
\* still there.
C10_Witness ==
    /\ last.op = "refreshSession"
    /\ last.tok \in issuedRefresh
    /\ ~checkRefreshTokenFormat(env, last.tok)
    /\ HasRefresh(redis, last.tok, now)
    /\ ~last.ok

\* The two ways a well-formed login fails: no account has the identifier,
\* or the account's stored hash does not match the secret.
NotFound(email, password) ==
    /\ checkEmailFormat(email) /\ checkPasswordFormat(password)
    /\ ~Existing(email)
Mismatch(email, password) ==
    /\ checkEmailFormat(email) /\ checkPasswordFormat(password)
    /\ Existing(email)
    /\ ~bcryptCompare(password, query(accounts, email)[1].Password)

NotFoundInputs == {c \in LoginInputs : NotFound(c[1], c[2])}
MismatchInputs == {c \in LoginInputs : Mismatch(c[1], c[2])}

\* The last call was a login whose query found no row, or one whose query
\* found a row whose Password does not match the secret.
NotFoundLogin ==
    /\ last.op = "login"
    /\ last.user = <<>>
    /\ last.missed
MismatchLogin ==
    /\ last.op = "login"
    /\ last.user # <<>>
    /\ ~bcryptCompare(last.password, last.user[1].Password)

\* C11: in every state, a login with an unknown identifier and a login with
\* an existing identifier and a wrong secret have the same observable
\* outcome: both return false, carry no token, and leave the cache as it
\* is; and a login that was made with either kind of credentials returned
\* false and wrote nothing to the cache.
C11_EnumerationResistance ==
    /\ \A a \in NotFoundInputs, b \in MismatchInputs :
          /\ login(env, accounts, redis, a[1], a[2], now)
                 = login(env, accounts, redis, b[1], b[2], now)
          /\ login(env, accounts, redis, b[1], b[2], now) = Failure(redis)
    /\ (NotFoundLogin \/ MismatchLogin)
       => /\ ~last.ok
          /\ last.sessionToken = NoToken
          /\ last.refreshToken = NoToken
          /\ last.written = {}

\* With sessions in the cache, login was called for an existing identifier
\* with a wrong secret and returned false, while a login with an unknown
\* identifier is among the calls that can be made.
C11_Witness ==
    /\ MismatchLogin
    /\ ~last.ok
    /\ redis # {}
    /\ NotFoundInputs # {}

\* C12: for every non-empty e-mail and every instant t0, verifyMagicToken
\* applied at t0 to the token generateMagicToken returns for that e-mail at
\* t0 returns exactly that e-mail; and a verifyMagicToken call that was made
\* on such a token returned the e-mail.
C12_MagicRoundTrip ==
    \A email \in MagicEmailInputs \ {<<>>} :
        LET token == generateMagicToken(env, email, nowMs)
        IN  /\ token # NoToken
            /\ verifyMagicToken(env, token, nowMs)
                   = [ok |-> TRUE, email |-> email]
            /\ (last.op = "verifyMagicToken" /\ last.tok = token)
                   => (last.ok /\ last.magicEmail = email)

\* At a later instant, a token minted at that instant for an e-mail whose
\* base64 form is padded was verified and the e-mail came back.
C12_Witness ==
    /\ last.op = "verifyMagicToken"
    /\ nowMs > 0
    /\ last.tok = generateMagicToken(env, BadEmail, nowMs)
    /\ last.ok
    /\ last.magicEmail = BadEmail

\* C13: a magic-link token generated at t0 carries issuedAt = t0 and
\* expiresAt = t0 + 900000 ms; verifyMagicToken accepts it at every instant
\* up to and including t0 + 900000 and rejects it at every later instant
\* (t0 + 901000 among them).
C13_MagicExpiry ==
    /\ (last.op = "generateMagicToken" /\ last.ok) =>
           /\ parseInt(last.magicToken[2].txt) = <<nowMs>>
           /\ parseInt(last.magicToken[3].txt) = <<nowMs + MagicLifetimeMs>>
    /\ \A token \in GenuineMagicTokens(env, nowMs) :
           LET t0 == parseInt(token[2].txt)[1]
           IN  /\ verifyMagicToken(env, token, nowMs).ok
                      <=> nowMs <= t0 + MagicLifetimeMs
               /\ (last.op = "verifyMagicToken" /\ last.tok = token) =>
                      (last.ok <=> nowMs <= t0 + MagicLifetimeMs)

\* A token minted after the first instant was verified at exactly its
\* expiresAt and accepted.
C13_Witness ==
    /\ last.op = "verifyMagicToken"
    /\ last.tok \in GenuineMagicTokens(env, nowMs)
    /\ parseInt(last.tok[2].txt)[1] > 0
    /\ nowMs = parseInt(last.tok[2].txt)[1] + MagicLifetimeMs
    /\ last.ok

\* C14: verifyMagicToken accepts a token only if it has exactly four
\* dot-separated parts and its fourth part equals the hex HMAC of the first
\* three, dot-joined, under the magic-link key; a generated token in which
\* a single character of the encoded e-mail, of issuedAt, of expiresAt or
\* of the hash was changed is rejected.
C14_MagicTamper ==
    /\ (last.op = "verifyMagicToken" /\ last.ok) =>
           /\ Len(last.tok) = 4
           /\ last.tok[4] =
                  HmacSha256(env.MAGIC_SIGNIN_KEY,
                             <<last.tok[1], last.tok[2], last.tok[3]>>, "hex")
    /\ \A token \in GenuineMagicTokens(env, nowMs) :
           \A x \in Tampered(token) :
               /\ ~verifyMagicToken(env, x, nowMs).ok
               /\ (last.op = "verifyMagicToken" /\ last.tok = x) => ~last.ok

\* A token that verifyMagicToken would accept at this instant was presented
\* with the last character of its expiresAt changed, and rejected.
C14_Witness ==
    /\ last.op = "verifyMagicToken"
    /\ ~last.ok
    /\ \E token \in GenuineMagicTokens(env, nowMs) :
          /\ verifyMagicToken(env, token, nowMs).ok
          /\ last.tok \in TamperedAt(token, 3, Len(token[3].txt))
          /\ Len(last.tok) = 4

\* C15: in every reachable state, verifySession rejects every refresh token
\* createSession returned and refreshSession rejects every access token
\* createSession or refreshSession returned; and every such call that was
\* made returned false.
C15_KindsNotInterchangeable ==
    /\ \A r \in issuedRefresh : ~verifySession(env, redis, r, now)
    /\ \A a \in issued : ~refreshSession(env, redis, a, now).ok
    /\ (last.op = "verifySession" /\ last.tok \in issuedRefresh) => ~last.ok
    /\ (last.op = "refreshSession" /\ last.tok \in issued) => ~last.ok

\* A refresh token whose refresh entry is in the cache and whose signature
\* and expiry are good was presented to verifySession and rejected.
C15_Witness ==
    /\ last.op = "verifySession"
    /\ last.tok \in issuedRefresh
    /\ HasRefresh(redis, last.tok, now)
    /\ jwtVerify(last.tok, env.REFRESH_SECRET_KEY, now)
    /\ ~last.ok

\* The Redis command a call of createSession awaits runs at this step.
SetSessionStep(c) ==
    /\ calls[c].pc = "createSession:set session"
    /\ calls'[c].pc = "createSession:set refresh"
SetRefreshStep(c) ==
    /\ calls[c].pc = "createSession:set refresh"
    /\ calls'[c].pc = "idle"
    /\ last'.ok

\* The entries under other keys are as they were.
OnlyKeyChanged(key) ==
    {x \in redis' : x.key # key} = {x \in redis : x.key # key}

\* C16: a createSession that succeeds returns an access token and a refresh
\* token together, and has written exactly two cache entries: one under the
\* session key of the returned access token and one under the refresh key
\* of the returned refresh token, each holding the id of the account row
\* with the e-mail; each of the two writes leaves every other entry as it
\* was.
C16_CreateSessionWrites ==
    [][ /\ (last'.op = "createSession" /\ last'.ok) =>
              LET value ==
                      JSONstringify([userId |-> last'.account[1].ID])
              IN  /\ last'.account[1].Email = last'.email
                  /\ last'.sessionToken # NoToken
                  /\ last'.refreshToken # NoToken
                  /\ last'.written =
                         {[key |-> SessionKey(last'.sessionToken),
                           val |-> value, ex |-> NoExpiry],
                          [key |-> RefreshKey(last'.refreshToken),
                           val |-> value, ex |-> now' + RefreshLifetime]}
                  /\ redisGet(redis', RefreshKey(last'.refreshToken), now')
                         = <<value>>
        /\ \A c \in Callers :
              /\ SetSessionStep(c) =>
                     OnlyKeyChanged(SessionKey(calls[c].sessionToken))
              /\ SetRefreshStep(c) =>
                     OnlyKeyChanged(RefreshKey(calls[c].refreshToken)) ]_vars

\* createSession succeeded for the second account while the two entries of
\* an earlier session were in the cache: four entries, the two new ones
\* holding id 2.
C16_Witness ==
    /\ last.op = "createSession"
    /\ last.ok
    /\ last.email = Email2
    /\ Cardinality(redis) = 4
    /\ redisGet(redis, SessionKey(last.sessionToken), now)
           = <<JSONstringify([userId |-> 2])>>
    /\ redisGet(redis, RefreshKey(last.refreshToken), now)
           = <<JSONstringify([userId |-> 2])>>

RefreshEntries(rds) == {x \in rds : x.key.ns = "user_refresh"}

\* C17: every refresh entry in the cache is keyed by a refresh token that
\* createSession returned (directly or inside login) and was written for
\* it; verifySession, deleteSession, refreshSession, generateMagicToken and
\* verifyMagicToken return no refresh token.
C17_OnlyCreateSessionMintsRefresh ==
    /\ \A x \in RefreshEntries(redis) :
          /\ x.key.tok \in issuedRefresh
          /\ x.val = JSONstringify([userId |-> x.key.tok[2].uid])
    /\ last.op \in {"verifySession", "deleteSession", "refreshSession",
                     "generateMagicToken", "verifyMagicToken"} =>
          /\ last.refreshToken = NoToken
          /\ last.sessionToken \notin issuedRefresh
          /\ last.magicToken \notin issuedRefresh

\* With the refresh entries of two sessions in the cache, a magic-link
\* token was generated; the entries are those createSession wrote.
C17_Witness ==
    /\ last.op = "generateMagicToken"
    /\ last.ok
    /\ Cardinality(RefreshEntries(redis)) = 2
    /\ {x.key.tok : x \in RefreshEntries(redis)} \subseteq issuedRefresh

SessionOps ==
    {"login", "createSession", "verifySession", "deleteSession",
     "refreshSession"}

\* C18: no call of login, createSession, verifySession, deleteSession or
\* refreshSession raises; a call during which a call to the account store
\* or to the cache failed returned false and no token.
C18_FaultsReturnFalse ==
    last.op \in SessionOps =>
        /\ ~last.raised
        /\ last.faulted =>
               /\ ~last.ok
               /\ last.sessionToken = NoToken
               /\ last.refreshToken = NoToken

\* The second redis.set of createSession failed after the first had
\* written the session entry; createSession returned false.
C18_Witness ==
    /\ last.op = "createSession"
    /\ last.fault = "createSession:set refresh"
    /\ last.faulted
    /\ ~last.ok
    /\ ~last.raised
    /\ redis # {}

AllOps == SessionOps \cup {"generateMagicToken", "verifyMagicToken"}

\* C19: there is an AuthService instance only if none of the three secrets
\* is absent or empty, and every operation that ran did so on an instance
\* holding three non-empty secrets.
C19_NoInstanceWithoutSecrets ==
    (service = "ready" \/ last.op \in AllOps) =>
        /\ service = "ready"
        /\ env.SECRET_KEY # ""
        /\ env.REFRESH_SECRET_KEY # ""
        /\ env.MAGIC_SIGNIN_KEY # ""

\* With only the magic-link key missing, the constructor ran and threw; no
\* operation has run.
C19_Witness ==
    /\ service = "failed"
    /\ env.SECRET_KEY # ""
    /\ env.REFRESH_SECRET_KEY # ""
    /\ env.MAGIC_SIGNIN_KEY = ""
    /\ last.op \notin AllOps

\* C20: there is an AuthService instance only if the three secrets are
\* pairwise different values.
C20_SharedSecretRejected ==
    service = "ready" =>
        /\ env.SECRET_KEY # env.REFRESH_SECRET_KEY
        /\ env.SECRET_KEY # env.MAGIC_SIGNIN_KEY
        /\ env.REFRESH_SECRET_KEY # env.MAGIC_SIGNIN_KEY

\* C21: a refresh entry carries the expiry embedded in its token, 7 days
\* after createSession wrote it; the entry of a refresh token createSession
\* returned is in the cache before that instant and gone from it on, and
\* from that instant on refreshSession with the token returns false.
C21_RefreshEntryExpires ==
    /\ \A x \in RefreshEntries(redis) :
          /\ x.ex = x.key.tok[2].iat + RefreshLifetime
          /\ x.ex = x.key.tok[2].exp
    /\ \A r \in issuedRefresh :
          /\ HasRefresh(redis, r, now) <=> now < r[2].iat + RefreshLifetime
          /\ now >= r[2].iat + RefreshLifetime =>
                 /\ ~refreshSession(env, redis, r, now).ok
                 /\ (last.op = "refreshSession" /\ last.tok = r) => ~last.ok

\* C22: verifySession, generateMagicToken and verifyMagicToken leave the
\* session cache as it was, and none of them issues an access or a refresh
\* token, a successful magic-link redemption included.
ReadOnlyOps == {"verifySession", "generateMagicToken", "verifyMagicToken"}

C22_ReadOnlyOperations ==
    [][last'.op \in ReadOnlyOps =>
          /\ redis' = redis
          /\ issued' = issued
          /\ issuedRefresh' = issuedRefresh
          /\ last'.sessionToken = NoToken
          /\ last'.refreshToken = NoToken]_vars

\* A magic link was redeemed while the cache held a session, and the call
\* returned its e-mail and no token.
C22_Witness ==
    /\ last.op = "verifyMagicToken"
    /\ last.ok
    /\ last.magicEmail = Email1
    /\ \E tok \in issued : HasSession(redis, tok, now)
    /\ \E r \in issuedRefresh : HasRefresh(redis, r, now)
    /\ last.sessionToken = NoToken
    /\ last.refreshToken = NoToken

\* C23: createSession for an identifier that fails the e-mail format check
\* or has no account returns false and writes no entry to the cache.
NoAccountInputs ==
    {email \in EmailInputs : ~checkEmailFormat(email) \/ ~Existing(email)}

C23_NoAccountNoSession ==
    /\ \A email \in NoAccountInputs :
          createSession(env, accounts, redis, email, now) = Failure(redis)
    /\ ( /\ last.op = "createSession"
         /\ ~checkEmailFormat(last.email) \/ last.missed ) =>
          /\ ~last.ok
          /\ last.sessionToken = NoToken
          /\ last.refreshToken = NoToken
          /\ last.written = {}

\* createSession was called with a well-formed e-mail that has no account
\* while the cache held a session, and returned false.
C23_Witness ==
    /\ last.op = "createSession"
    /\ last.email = UnknownEmail
    /\ checkEmailFormat(last.email)
    /\ last.missed
    /\ ~Existing(last.email)
    /\ ~checkEmailFormat(BadEmail)
    /\ redis # {}
    /\ createSession(env, accounts, redis, last.email, now).redis = redis
    /\ ~last.ok

\* C24: generateMagicToken with an empty e-mail returns the empty string,
\* and verifyMagicToken never accepts the empty string.
C24_EmptyEmailFailsClosed ==
    /\ generateMagicToken(env, <<>>, nowMs) = NoToken
    /\ ~verifyMagicToken(env, generateMagicToken(env, <<>>, nowMs), nowMs).ok
    /\ (last.op = "generateMagicToken" /\ last.email = <<>>) =>
          (last.magicToken = NoToken /\ ~last.ok)
    /\ (last.op = "verifyMagicToken" /\ last.tok = NoToken) =>
          (~last.ok /\ last.magicEmail = <<>>)

\* After the clock moved, generateMagicToken was called with an empty
\* e-mail on a service that mints links for other e-mails, and returned the
\* empty string, which verifyMagicToken rejects.
C24_Witness ==
    /\ last.op = "generateMagicToken"
    /\ last.email = <<>>
    /\ last.magicToken = NoToken
    /\ nowMs > 0
    /\ generateMagicToken(env, Email1, nowMs) # NoToken
    /\ ~verifyMagicToken(env, last.magicToken, nowMs).ok

\* C25: checkRefreshTokenFormat returns true for every well-formed
\* UUID-shaped token of 36 characters and false for every other shape.
C25_UuidShapedAccepted ==
    service = "ready" =>
        \A tok \in TokenInputs :
            checkRefreshTokenFormat(env, tok) <=> checkAPIKeyFormat(tok)

\* C26: revoked is terminal: a token string for which deleteSession has
\* returned true is rejected by verifySession ever after, whatever logins,
\* createSession or refreshSession calls came in between, for whatever
\* subject and at whatever time, the second of its issuance included.
C26_RevokedIsTerminal ==
    \A tok \in revoked :
        /\ ~verifySession(env, redis, tok, now)
        /\ (last.op = "verifySession" /\ last.tok = tok) => ~last.ok

\* A token was revoked, createSession for the same account in the same
\* second returned the same string and wrote its entry again, and
\* verifySession on it, unexpired and with its entry in the cache, returned
\* false.
C26_Witness ==
    /\ last.op = "verifySession"
    /\ last.tok \in revoked
    /\ sessions = 2
    /\ HasSession(redis, last.tok, now)
    /\ jwtVerify(last.tok, env.SECRET_KEY, now)
    /\ ~last.ok

\* C29: createSession exposes no partial state: when it returns false the
\* cache holds no entry written by that call, also when the write of the
\* refresh entry fails after the access entry was written.
C29_NoPartialSession ==
    (last.op = "createSession" /\ ~last.ok) =>
        \A x \in last.written : x \notin redis

RacedOn(op, c, d) ==
    /\ c # d
    /\ \A x \in {c, d} :
          /\ calls[x].op = op
          /\ calls[x].pc = "done"
          /\ calls[x].live
    /\ calls[c].tok = calls[d].tok
    /\ calls[c].overlapped = {d}
    /\ calls[d].overlapped = {c}

C28_ConcurrentDeleteExactlyOne ==
    \A c, d \in Callers :
        RacedOn("deleteSession", c, d) =>
            /\ calls[c].ok # calls[d].ok
            /\ ~HasSession(redis, calls[c].tok, now)

\* The credentials login turns down: a malformed identifier or secret, an
\* unknown identifier, a wrong secret.
RejectedInputs ==
    {c \in LoginInputs :
        \/ ~checkEmailFormat(c[1])
        \/ ~checkPasswordFormat(c[2])
        \/ NotFound(c[1], c[2])
        \/ Mismatch(c[1], c[2])}

\* The last call was a login with such credentials.
RejectedLogin ==
    /\ last.op = "login"
    /\ \/ ~checkEmailFormat(last.email)
       \/ ~checkPasswordFormat(last.password)
       \/ NotFoundLogin
       \/ MismatchLogin

\* C31: login writes to the cache only after the credential check has
\* succeeded: a login with a malformed identifier or secret, an unknown
\* identifier or a wrong secret returns false and has written nothing to
\* the cache, and no step of a login that has not compared the secret yet
\* changes the cache.
C31_RejectedLoginLeavesCache ==
    [][ /\ RejectedLogin' => (~last'.ok /\ last'.written = {})
        /\ \A c \in Callers :
              ( /\ calls[c].pc \in {"login:query", "login:compare"}
                /\ calls'[c] # calls[c] ) => redis' = redis ]_vars

\* login for an existing account with a well-formed wrong secret returned
\* false while the cache held a session of that account.
C31_Witness ==
    /\ MismatchLogin
    /\ checkPasswordFormat(last.password)
    /\ ~last.ok
    /\ \E tok \in issued :
          /\ HasSession(redis, tok, now)
          /\ tok[2].uid = last.user[1].ID
    /\ \A x \in redis : x.key.tok \in issued \cup issuedRefresh

\* C32: deleteSession(t) removes at most the access-token entry keyed by
\* t: it adds nothing, every refresh entry and every other access entry
\* stays as it was, and given a refresh token string it returns false and
\* the refresh entry of that string stays.
C32_DeleteRemovesOnlyItsEntry ==
    [][last'.op = "deleteSession" =>
          /\ redis' \subseteq redis
          /\ \A x \in redis : x.key # SessionKey(last'.tok) => x \in redis'
          /\ RefreshEntries(redis') = RefreshEntries(redis)
          /\ last'.tok \in issuedRefresh =>
                /\ ~last'.ok
                /\ HasRefresh(redis', last'.tok, now')
                       = HasRefresh(redis, last'.tok, now)]_vars

\* deleteSession on an access token returned true; its entry is gone, the
\* refresh token issued with it by the same createSession still has its
\* entry, and so has the access token of another session.
C32_Witness ==
    /\ last.op = "deleteSession"
    /\ last.ok
    /\ last.tok \in issued
    /\ ~HasSession(redis, last.tok, now)
    /\ \E r \in issuedRefresh :
          /\ r[2].uid = last.tok[2].uid
          /\ r[2].iat = last.tok[2].iat
          /\ HasRefresh(redis, r, now)
    /\ \E other \in issued \ {last.tok} : HasSession(redis, other, now)

SessionEntries(rds) == {x \in rds : x.key.ns = "user_session"}

\* C33: an access-token entry has no TTL and, once written, leaves the
\* cache only by a deleteSession on its token that returns true:
\* refreshSession, verifySession, later createSession calls and the passage
\* of time do not remove it.
C33_AccessEntryStaysUntilDeleted ==
    [][\A x \in SessionEntries(redis) :
          /\ x.ex = NoExpiry
          /\ \/ x \in redis'
             \/ /\ last'.op = "deleteSession"
                /\ last'.ok
                /\ SessionKey(last'.tok) = x.key]_vars

\* Past the expiry of an access token and of the refresh token issued with
\* it, after a later createSession, verifySession was called on the token
\* and its entry is still in the cache.
C33_Witness ==
    /\ last.op = "verifySession"
    /\ last.tok \in issued
    /\ now > last.tok[2].iat + RefreshLifetime
    /\ ~jwtVerify(last.tok, env.SECRET_KEY, now)
    /\ HasSession(redis, last.tok, now)
    /\ \E other \in issued : other[2].iat > last.tok[2].iat

\* The token is for this subject and its entry under the key stores it.
BoundTo(rds, key, id, t) ==
    /\ key.tok[2].uid = id
    /\ redisGet(rds, key, t) = <<JSONstringify([userId |-> id])>>

\* C34: every cache entry, access or refresh, stores the subject id embedded
\* in the token that keys it; the tokens a createSession (or a login)
\* returns and the entries it wrote carry the id of the account row with
\* the e-mail it was called for; refreshSession signs the new access token
\* for the subject of the refresh entry it read, which is the subject of
\* the refresh token, and writes that subject under the new token's key.
C34_EntrySubjectMatchesToken ==
    [][ /\ \A x \in redis' : JSONparse(x.val).userId = x.key.tok[2].uid
        /\ ( /\ last'.op \in {"createSession", "login"}
             /\ last'.ok
             /\ last' # last ) =>
              LET id == last'.account[1].ID
              IN  /\ last'.account[1].Email = last'.email
                  /\ {x.key : x \in last'.written} =
                         {SessionKey(last'.sessionToken),
                          RefreshKey(last'.refreshToken)}
                  /\ \A x \in last'.written :
                         /\ x.key.tok[2].uid = id
                         /\ x.val = JSONstringify([userId |-> id])
                  /\ BoundTo(redis', RefreshKey(last'.refreshToken), id, now')
        /\ \A c \in Callers :
              LET call == calls'[c]
                  new == call.newSessionToken
              IN  /\ ( /\ call.op = "refreshSession"
                       /\ calls[c].pc = "set"
                       /\ call.pc = "del" ) =>
                        /\ JSONparse(call.sessionData[1]).userId
                               = call.tok[2].uid
                        /\ BoundTo(redis', SessionKey(new), call.tok[2].uid,
                                   now')
                  /\ ( /\ call.op = "refreshSession"
                       /\ calls[c].pc = "del"
                       /\ call.ok ) =>
                        new[2].uid = call.tok[2].uid ]_vars

\* refreshSession with the refresh token of a session of the second
\* account, called a second after the session was created, has returned a
\* new access token: its entry carries the second account's id, next to
\* the entry of a session of the first account carrying the first's.
C34_Witness ==
    \E c \in Callers :
        /\ calls[c].op = "refreshSession"
        /\ calls[c].pc = "done"
        /\ calls[c].ok
        /\ calls[c].tok \in issuedRefresh
        /\ calls[c].tok[2].uid = 2
        /\ calls[c].newSessionToken \in issued
        /\ calls[c].newSessionToken[2].iat > calls[c].tok[2].iat
        /\ BoundTo(redis, SessionKey(calls[c].newSessionToken), 2, now)
        /\ \E tok \in issued : BoundTo(redis, SessionKey(tok), 1, now)

\* C35: any two successful createSession calls, for the same or different
\* subjects and at any times, the same clock second included, return
\* different access tokens and different refresh tokens: a successful call
\* returns tokens that no earlier call returned.
C35_FreshTokensEveryCall ==
    [][(last'.op = "createSession" /\ last'.ok /\ sessions' = sessions + 1)
          => /\ last'.sessionToken \notin issued
             /\ last'.refreshToken \notin issuedRefresh]_vars

\* The expiresAt a magic-link token carries.
ExpiresAt(token) == parseInt(PartText(token[3]))[1]

\* C36: verifyMagicToken is stateless and deterministic: what a call
\* returns is what the token, the clock and the magic-link key determine,
\* and a token that was accepted is accepted again, with the same e-mail,
\* by every later call made no later than its expiresAt.
C36_RedemptionRepeatable ==
    [][last'.op = "verifyMagicToken" =>
          /\ last'.ok = verifyMagicToken(env, last'.tok, nowMs').ok
          /\ last'.magicEmail = verifyMagicToken(env, last'.tok, nowMs').email
          /\ ( /\ accepted # NoneAccepted
               /\ last'.tok = accepted.tok
               /\ nowMs' <= ExpiresAt(accepted.tok) )
             => (last'.ok /\ last'.magicEmail = accepted.email)]_vars

\* At the very millisecond of its expiresAt, a link minted at the first
\* reading was presented and accepted with its e-mail, and it is the link
\* accepted last.
C36_Witness ==
    /\ last.op = "verifyMagicToken"
    /\ last.ok
    /\ last.tok = generateMagicToken(env, Email1, 0)
    /\ last.magicEmail = Email1
    /\ accepted.tok = last.tok
    /\ nowMs = ExpiresAt(last.tok)
    /\ nowMs > 0

\* An access token whose payload names another subject, under the
\* signature of the original.
AlteredPayload(token) ==
    <<token[1], [token[2] EXCEPT !.uid = @ + 1], token[3]>>

\* C37: checkTokenSignature returns true exactly when the token's signature
\* is valid under the configured access secret: true for every access token
\* createSession or refreshSession minted with it, false for a token signed
\* with another key and for a token whose payload was altered.
C37_SignatureCheckExact ==
    service = "ready" =>
        /\ \A tok \in issued :
              /\ checkTokenSignature(env, tok)
              /\ ~checkTokenSignature(env, AlteredPayload(tok))
        /\ ~checkTokenSignature(env, ForgedJwt)

====
